---- MODULE Spec2Model ----
(***************************************************************************)
(* A model of the browser-side HTML -> composable-JSON converter           *)
(* (scripts/json-html-converter.js) and of the iframe messaging scripts    *)
(* that run beside it (MessageHandler, NavigationTracker,                  *)
(* NavigationListener).                                                    *)
(*                                                                         *)
(* The tree converter is a pure function of the DOM and of the component   *)
(* mappings: it is translated as recursive operators.  The driver (message *)
(* listener, entry points, last-result cache, posted messages) is a state  *)
(* machine.  Strings the code inspects character by character are          *)
(* sequences of one-character strings.                                     *)
(***************************************************************************)
EXTENDS Integers, Sequences, FiniteSets, TLC

(***************************************************************************)
(* Bounds of the model                                                     *)
(***************************************************************************)
\* events (messages, direct calls, navigations, DOM changes) in one behaviour
MaxEvents == 2
\* nodes below the root in the documents of SpecTree
MaxTreeNodes == 4
\* nodes below the root in the documents of SpecMap
MaxMapNodes == 2
\* entries in a component-mapping list
MaxMappings == 2
\* calls of a helper function on one argument
MaxCalls == 2

(***************************************************************************)
(* The DOM.  A node is a record                                            *)
(*   kind  "element" | "text" | "comment"     (Node.nodeType)              *)
(*   tag   lower-case tag name of an element  (element.tagName)            *)
(*   fid   the data-figma-id attribute, NoAttr when absent (getAttribute   *)
(*         returns null)                                                   *)
(*   text  the data of a text node                                         *)
(*   kids  element.childNodes                                              *)
(*   attrs element.attributes other than data-figma-id: a function from    *)
(*         attribute names to their values.  The value of class is the     *)
(*         sequence of class names (element.classList), the value of style *)
(*         a function from the declared property names to their values,    *)
(*         each value given as its pieces between colons                   *)
(*   cs    getComputedStyle(element): a function from property names to    *)
(*         values                                                          *)
(*   ps    getComputedStyle(element.parentElement), read only when         *)
(*         hasParent (element.parentElement is not null)                   *)
(*   frame whether an iframe appended to the element's document gets a     *)
(*         contentDocument                                                 *)
(***************************************************************************)
NoAttr == "<null>"

\* the properties of a computed style the model keeps: the ones
\* getComponentName and handleAdditionalStyles read, and four more of which
\* two are supported, one of them inheritable, and two are not supported, one of
\* them inheritable
ComputedProps ==
    { "display", "flex-direction", "justify-content", "align-items", "gap",
      "grid-template-columns", "grid-template-rows", "list-style-type",
      "list-style-position", "list-style-image", "margin-top", "margin-bottom",
      "padding-left", "padding-right", "letter-spacing", "text-transform",
      "color", "opacity", "quotes", "float" }

InlineTags == {"a", "span", "label", "img", "button", "br", "#text", "#comment"}

\* the computed style of a fresh element of the tag in an empty document: the
\* user-agent baseline
UaStyle(tag) ==
    [p \in ComputedProps |->
        IF p = "display" THEN (IF tag \in InlineTags THEN "inline"
                              ELSE IF tag = "li" THEN "list-item"
                              ELSE IF tag = "source" THEN "none" ELSE "block")
        ELSE IF p = "flex-direction" THEN "row"
        ELSE IF p \in {"justify-content", "align-items", "gap"} THEN "normal"
        ELSE IF p \in {"grid-template-columns", "grid-template-rows",
                       "list-style-image", "text-transform", "float"} THEN "none"
        ELSE IF p = "list-style-type" THEN "disc"
        ELSE IF p = "list-style-position" THEN "outside"
        ELSE IF p \in {"margin-top", "margin-bottom"}
             THEN (IF tag \in {"p", "ul"} THEN "16px" ELSE "0px")
        ELSE IF p = "padding-left" THEN (IF tag = "ul" THEN "40px" ELSE "0px")
        ELSE IF p = "padding-right" THEN "0px"
        ELSE IF p = "letter-spacing" THEN "normal"
        ELSE IF p = "color" THEN "rgb(0, 0, 0)"
        ELSE IF p = "opacity" THEN "1"
        ELSE "auto"]

EmptyMap == [x \in {} |-> x]

\* JavaScript values where the code's result depends on their type: a boolean,
\* null, or a string
JsBool(b) == [t |-> "boolean", b |-> b, s |-> <<>>]

JsNull == [t |-> "null", b |-> FALSE, s |-> <<>>]

JsStr(s) == [t |-> "string", b |-> FALSE, s |-> s]

JsTruthy(v) == (v.t = "boolean" /\ v.b) \/ (v.t = "string" /\ v.s # <<>>)

\* a && b
JsAnd(a, b) == IF JsTruthy(a) THEN b ELSE a

TextNode(s) ==
    [kind |-> "text", tag |-> "#text", fid |-> NoAttr, text |-> s,
     kids |-> <<>>, cs |-> UaStyle("#text"), ps |-> UaStyle("body"),
     hasParent |-> TRUE, attrs |-> EmptyMap, frame |-> TRUE]

CommentNode ==
    [kind |-> "comment", tag |-> "#comment", fid |-> NoAttr, text |-> <<>>,
     kids |-> <<>>, cs |-> UaStyle("#text"), ps |-> UaStyle("body"),
     hasParent |-> TRUE, attrs |-> EmptyMap, frame |-> TRUE]

Elem(tag, fid, kids) ==
    [kind |-> "element", tag |-> tag, fid |-> fid, text |-> <<>>,
     kids |-> kids, cs |-> UaStyle(tag), ps |-> UaStyle("body"),
     hasParent |-> TRUE, attrs |-> EmptyMap, frame |-> TRUE]

\* element.children: the child nodes that are elements
RECURSIVE ElementsOf(_)
ElementsOf(ns) ==
    IF ns = <<>> THEN <<>>
    ELSE IF Head(ns).kind = "element" THEN <<Head(ns)>> \o ElementsOf(Tail(ns))
         ELSE ElementsOf(Tail(ns))

children(el) == ElementsOf(el.kids)

\* element.getAttribute(name) for an attribute other than data-figma-id
getAttribute(el, name) ==
    IF name \in DOMAIN el.attrs THEN JsStr(el.attrs[name]) ELSE JsNull

\* string.startsWith(prefix)
startsWith(str, prefix) ==
    Len(str) >= Len(prefix) /\ SubSeq(str, 1, Len(prefix)) = prefix

\* node.textContent: the text of all descendant text nodes, in document order
RECURSIVE textContent(_)
RECURSIVE textContentOfList(_)
textContent(n) ==
    IF n.kind = "text" THEN n.text
    ELSE IF n.kind = "comment" THEN <<>>
    ELSE textContentOfList(n.kids)

textContentOfList(ns) ==
    IF ns = <<>> THEN <<>>
    ELSE textContent(Head(ns)) \o textContentOfList(Tail(ns))

\* element.getElementsByTagName(tag): the descendant elements with that tag
RECURSIVE getElementsByTagName(_, _)
RECURSIVE getElementsByTagNameOfList(_, _)
getElementsByTagName(el, tag) == getElementsByTagNameOfList(el.kids, tag)

getElementsByTagNameOfList(ns, tag) ==
    IF ns = <<>> THEN <<>>
    ELSE LET n == Head(ns)
         IN  (IF n.kind = "element" /\ n.tag = tag THEN <<n>> ELSE <<>>)
             \o (IF n.kind = "element" THEN getElementsByTagName(n, tag) ELSE <<>>)
             \o getElementsByTagNameOfList(Tail(ns), tag)

(***************************************************************************)
(* String helpers (String.prototype.trim, the /\.{3,}$/ replace)           *)
(***************************************************************************)
IsSpace(c) == c = " "

RECURSIVE TrimLeft(_)
TrimLeft(s) ==
    IF s = <<>> THEN <<>>
    ELSE IF IsSpace(Head(s)) THEN TrimLeft(Tail(s)) ELSE s

RECURSIVE TrimRight(_)
TrimRight(s) ==
    IF s = <<>> THEN <<>>
    ELSE IF IsSpace(s[Len(s)]) THEN TrimRight(SubSeq(s, 1, Len(s) - 1)) ELSE s

trim(s) == TrimRight(TrimLeft(s))

\* the number of "." characters that end s
RECURSIVE TrailingDots(_)
TrailingDots(s) ==
    IF s = <<>> THEN 0
    ELSE IF s[Len(s)] = "." THEN 1 + TrailingDots(SubSeq(s, 1, Len(s) - 1)) ELSE 0

\* s.replace(/\.{3,}$/, ''): a trailing run of three or more dots is removed
StripTrailingDots(s) ==
    IF TrailingDots(s) >= 3 THEN SubSeq(s, 1, Len(s) - TrailingDots(s)) ELSE s

(***************************************************************************)
(* Styles.  A StyleMap is a function from camel-case property names to     *)
(* values; a value is tagged with its JavaScript type.                     *)
(***************************************************************************)
StrVal(v) == [t |-> "string", v |-> v]

NumVal(v) == [t |-> "number", v |-> v]

\* { ...a, ...b }
Merge(a, b) ==
    [x \in DOMAIN a \cup DOMAIN b |-> IF x \in DOMAIN b THEN b[x] ELSE a[x]]

\* Array.from(element.classList)
classListOf(el) == IF "class" \in DOMAIN el.attrs THEN el.attrs["class"] ELSE <<>>

\* element.classList.contains(name)
classListContains(el, name) ==
    "class" \in DOMAIN el.attrs
        /\ \E i \in 1..Len(el.attrs["class"]) : el.attrs["class"][i] = name

\* element.style[prop] === value, for a value without a colon
inlineStyleIs(el, prop, value) ==
    "style" \in DOMAIN el.attrs
        /\ prop \in DOMAIN el.attrs["style"]
        /\ el.attrs["style"][prop] = <<value>>

\* prop.replace(/-([a-z])/g, ...) on the property names of the model
camel(prop) ==
    CASE prop = "flex-direction" -> "flexDirection"
      [] prop = "justify-content" -> "justifyContent"
      [] prop = "align-items" -> "alignItems"
      [] prop = "grid-template-columns" -> "gridTemplateColumns"
      [] prop = "grid-template-rows" -> "gridTemplateRows"
      [] prop = "list-style-type" -> "listStyleType"
      [] prop = "list-style-position" -> "listStylePosition"
      [] prop = "list-style-image" -> "listStyleImage"
      [] prop = "margin-top" -> "marginTop"
      [] prop = "margin-bottom" -> "marginBottom"
      [] prop = "padding-left" -> "paddingLeft"
      [] prop = "padding-right" -> "paddingRight"
      [] prop = "letter-spacing" -> "letterSpacing"
      [] prop = "text-transform" -> "textTransform"
      [] prop = "text-overflow" -> "textOverflow"
      [] prop = "background-color" -> "backgroundColor"
      [] prop = "background-image" -> "backgroundImage"
      [] OTHER -> prop

STYLE_MODE == "uaDiffPlusInherited"

SUPPORTED_PROPS ==
    { "display", "position", "top", "right", "bottom", "left", "z-index",
      "width", "height", "min-width", "min-height", "max-width",
      "max-height", "aspect-ratio", "overflow", "overflow-x", "overflow-y",
      "margin-top", "margin-right", "margin-bottom", "margin-left",
      "padding-top", "padding-right", "padding-bottom", "padding-left",
      "background-color", "background-image", "background-repeat",
      "background-size", "background-position", "background-clip",
      "background-origin", "background-attachment", "background-blend-mode",
      "border-top-width", "border-right-width", "border-bottom-width",
      "border-left-width", "border-top-style", "border-right-style",
      "border-bottom-style", "border-left-style", "border-top-color",
      "border-right-color", "border-bottom-color", "border-left-color",
      "border-top-left-radius", "border-top-right-radius",
      "border-bottom-right-radius", "border-bottom-left-radius",
      "border-image", "box-shadow", "opacity", "transform", "filter",
      "backdrop-filter", "mix-blend-mode", "clip-path", "mask", "color",
      "font-family", "font-size", "font-weight", "font-style", "line-height",
      "letter-spacing", "text-transform", "text-decoration-line",
      "text-decoration-color", "text-decoration-thickness",
      "text-underline-offset", "text-align", "white-space", "text-overflow",
      "overflow-wrap", "word-break", "flex", "flex-grow", "flex-shrink",
      "flex-basis", "flex-direction", "flex-wrap", "align-items",
      "justify-content", "align-content", "align-self", "gap",
      "grid-template-columns", "grid-template-rows", "grid-auto-flow",
      "grid-auto-rows", "grid-auto-columns", "grid-column", "grid-row",
      "row-gap", "column-gap", "place-items", "place-content",
      "justify-items", "justify-self", "list-style", "list-style-type",
      "list-style-position", "list-style-image", "table-layout",
      "border-collapse", "border-spacing", "visibility", "pointer-events",
      "user-select", "cursor", "object-fit", "object-position" }

INHERITABLE ==
    { "color", "font", "font-family", "font-feature-settings",
      "font-kerning", "font-language-override", "font-size",
      "font-size-adjust", "font-stretch", "font-style", "font-synthesis",
      "font-variant", "font-variant-caps", "font-variant-ligatures",
      "font-variant-numeric", "font-variant-position", "font-weight",
      "letter-spacing", "line-height", "text-align", "text-align-last",
      "text-indent", "text-justify", "text-shadow", "text-transform",
      "white-space", "word-break", "word-spacing", "word-wrap", "direction",
      "unicode-bidi", "writing-mode", "list-style", "list-style-image",
      "list-style-position", "list-style-type", "cursor", "quotes",
      "tab-size", "visibility", "pointer-events" }

\* the include variable with the "||" of the combined mode read as "&&"
includeValue_Both(mode, prop, val, uaVal, hasParent, psVal) ==
    IF mode = "all" THEN "true"
    ELSE IF mode = "inheritedOnly"
    THEN (IF hasParent /\ prop \in INHERITABLE /\ val = psVal
          THEN "true" ELSE "false")
    ELSE IF mode = "uaDiff"
    THEN (IF val # uaVal THEN "true" ELSE "false")
    ELSE IF val # uaVal /\ hasParent /\ prop \in INHERITABLE /\ val = psVal
         THEN "true" ELSE "false"

\* the value of the include variable after the switch on mode: "true", "false",
\* or "null" where ps (null for an element without parent) is what && yields
includeValue(mode, prop, val, uaVal, hasParent, psVal) ==
    IF mode = "all" THEN "true"
    ELSE IF mode = "inheritedOnly"
    THEN (IF hasParent /\ prop \in INHERITABLE
          THEN (IF val = psVal THEN "true" ELSE "false")
          ELSE "false")
    ELSE IF mode = "uaDiff"
    THEN (IF val # uaVal THEN "true" ELSE "false")
    ELSE LET diffUA == val # uaVal
             inherited == IF ~hasParent THEN "null"
                          ELSE IF prop \notin INHERITABLE THEN "false"
                          ELSE IF val = psVal THEN "true" ELSE "false"
         IN  IF diffUA THEN "true" ELSE inherited

\* if (!include) continue
Included(include) == ~(include \in {"false", "null"})

\* /(btn|button|cta)/i.test(cls), on the class names of the model
ButtonLikeClasses == {"btn", "btn-primary", "cta"}

\* the loop of getAppliedStyles: the properties that reach outKebab
AppliedProps(el, mode, whitelist) ==
    LET ua == UaStyle(el.tag)
    IN  { prop \in DOMAIN el.cs :
            /\ el.cs[prop] \notin {"", "initial", "unset"}
            /\ Included(includeValue(mode, prop, el.cs[prop], ua[prop],
                                     el.hasParent, el.ps[prop]))
            /\ (whitelist = {} \/ prop \in whitelist) }

\* browserUtils.getAppliedStyles(element, { mode, whitelist })
\* It returns [threw, styles]: iframe.contentDocument is null when the document
\* gives the new iframe no browsing context, and contentDocument.open() throws.
getAppliedStyles(el, mode, whitelist) ==
    LET kept == AppliedProps(el, mode, whitelist)
        outCamel == [k \in {camel(prop) : prop \in kept} |->
                        StrVal(el.cs[CHOOSE prop \in kept : camel(prop) = k])]
    IN  IF ~el.frame THEN [threw |-> TRUE, styles |-> EmptyMap]
        ELSE IF /\ el.tag = "a"
                /\ \E c \in ButtonLikeClasses : classListContains(el, c)
                /\ "display" \notin DOMAIN outCamel
        THEN [threw |-> FALSE,
              styles |-> Merge(outCamel, [x \in {"display"} |-> StrVal("inline-block")])]
        ELSE [threw |-> FALSE, styles |-> outCamel]

\* browserUtils.handleInlineStyles: of every declaration, split at its colons,
\* the first piece is the property and the second the value
\* (const [property, value] = declaration.split(':')); declarations without a
\* property or without a value are dropped
handleInlineStyles(el) ==
    IF "style" \notin DOMAIN el.attrs THEN EmptyMap
    ELSE LET style == el.attrs["style"]
             declared == {prop \in DOMAIN style : prop # "" /\ style[prop][1] # ""}
         IN  [k \in {camel(prop) : prop \in declared} |->
                 StrVal(style[CHOOSE prop \in declared : camel(prop) = k][1])]

\* className.startsWith("bg-opacity"), on the class names of the model
BgOpacityClasses == {"bg-opacity-50", "bg-opacity-100", "bg-opacity"}

\* className.startsWith("border"), on the class names of the model
BorderClasses == {"border", "border-2"}

\* Number(className.split("-")[2])/100, printed
opacityValue(className) ==
    IF className = "bg-opacity-50" THEN "0.5"
    ELSE IF className = "bg-opacity-100" THEN "1"
    ELSE "NaN"

\* the classList.forEach of the div case, from class i on
RECURSIVE DivClassStyles(_, _, _)
DivClassStyles(classList, i, additionalStyles) ==
    IF i > Len(classList) THEN additionalStyles
    ELSE LET className == classList[i]
             s1 == IF className \in BgOpacityClasses
                   THEN Merge(additionalStyles,
                              [x \in {"opacity"} |-> NumVal(opacityValue(className))])
                   ELSE additionalStyles
             s2 == IF className \in BorderClasses
                   THEN Merge(s1, [x \in {"border"} |-> StrVal("0 solid")])
                   ELSE s1
         IN  DivClassStyles(classList, i + 1, s2)

\* the properties the ul/ol/nav and li cases copy from the computed style
CopiedProps(el, props) == [k \in {camel(p) : p \in props} |->
    StrVal(el.cs[CHOOSE p \in props : camel(p) = k])]

\* browserUtils.handleAdditionalStyles, its default StyleMap
handleAdditionalStyles(el, classList) ==
    LET hasBorder == \E i \in 1..Len(classList) : classList[i] = "border"
        s0 == IF hasBorder THEN [x \in {"borderStyle"} |-> StrVal("solid")]
              ELSE EmptyMap
    IN  IF el.tag = "img"
        THEN Merge(s0, [x \in {"maxWidth"} |-> StrVal("100%")])
        ELSE IF el.tag = "button"
        THEN Merge(Merge(s0, [x \in {"backgroundColor", "backgroundImage"} |->
                                IF x = "backgroundColor" THEN StrVal("transparent")
                                ELSE StrVal("none")]),
                   IF ~hasBorder THEN [x \in {"border"} |-> StrVal("unset")]
                   ELSE EmptyMap)
        ELSE IF el.tag = "div" THEN DivClassStyles(classList, 1, s0)
        ELSE IF el.tag = "p"
        THEN Merge(s0, [x \in {"display"} |-> StrVal("inline-block")])
        ELSE IF el.tag \in {"h1", "h2", "h3", "h4", "h5", "h6"}
        THEN Merge(s0, [x \in {"display"} |-> StrVal("block")])
        ELSE IF el.tag \in {"ul", "ol", "nav"}
        THEN Merge(s0, CopiedProps(el,
                 (IF el.cs["display"] = "flex"
                  THEN {"display", "flex-direction", "justify-content",
                        "align-items", "gap"}
                  ELSE IF el.cs["display"] = "grid"
                  THEN {"display", "grid-template-columns", "grid-template-rows",
                        "gap"}
                  ELSE {"display"})
                 \cup {"list-style-type", "list-style-position", "list-style-image",
                       "margin-top", "margin-bottom", "padding-left",
                       "padding-right"}))
        ELSE IF el.tag = "li"
        THEN Merge(s0, CopiedProps(el,
                 {"display", "list-style-type", "list-style-position",
                  "list-style-image", "margin-top", "margin-bottom", "padding-left",
                  "padding-right", "letter-spacing", "text-transform"}))
        ELSE s0

\* browserUtils.getElementResponsiveStyles: computed, then additional, then
\* inline styles
getElementResponsiveStyles(el) ==
    LET inlineStyles == handleInlineStyles(el)
        additional == handleAdditionalStyles(el, classListOf(el))
        merge(stylesDefault) ==
            IF stylesDefault.threw
            THEN \* catch (err)
                 [default |-> EmptyMap, tablet |-> EmptyMap, mobile |-> EmptyMap]
            ELSE [default |-> Merge(Merge(stylesDefault.styles, additional),
                                    inlineStyles),
                  tablet |-> EmptyMap, mobile |-> EmptyMap]
    IN  \* the one call this.getAppliedStyles(element), evaluated once
        CHOOSE styles \in
            { merge(stylesDefault) :
                stylesDefault \in {getAppliedStyles(el, STYLE_MODE, SUPPORTED_PROPS)} } :
            TRUE

(***************************************************************************)
(* Output nodes.  props maps a property name to a descriptor, slots maps a *)
(* slot id to the ordered list of child nodes.                             *)
(***************************************************************************)
Undefined == "<undefined>"

\* JavaScript truthiness of a string-or-null-or-undefined value
Truthy(v) == v \notin {"", NoAttr, Undefined}

Desc(type, str, slot) == [type |-> type, staticString |-> str, slot |-> slot]

NoComponentMapping ==
    [set |-> FALSE, figmaNodeId |-> Undefined, codeComponentName |-> Undefined,
     figmaComponentKey |-> Undefined, variantProperties |-> Undefined]

NoMediaInfo == [set |-> FALSE, type |-> Undefined, sources |-> 0]

\* metadata.linkInfo of a node that has none
NoLinkInfo ==
    [set |-> FALSE, href |-> JsNull, target |-> <<>>, rel |-> <<>>,
     isExternal |-> JsNull, isInternal |-> JsNull, isEmail |-> JsNull,
     isPhone |-> JsNull, textContent |-> <<>>]

\* browserUtils.getElementAttributes: every attribute but class and style
getElementAttributes(el) ==
    [x \in (DOMAIN el.attrs \ {"class", "style"})
            \cup (IF el.fid # NoAttr THEN {"data-figma-id"} ELSE {}) |->
        IF x = "data-figma-id" THEN el.fid ELSE el.attrs[x]]

\* browserUtils.getElementMetadata: the source tag, the element path (here the
\* childNodes indices from the root, which name the same element as the
\* selector path getElementPath builds) and the bundles the converter adds
getElementMetadata(el, path) ==
    [tagName |-> el.tag, elementPath |-> path,
     componentMapping |-> NoComponentMapping,
     mediaInfo |-> NoMediaInfo, formInfo |-> FALSE, linkInfo |-> NoLinkInfo]

\* the object literal convertHTMLToComposableJSON starts every node from
NewNode(type, uid, el, path, attrs) ==
    [type |-> type, uid |-> uid, metadata |-> getElementMetadata(el, path),
     attrs |-> attrs, props |-> EmptyMap, slots |-> EmptyMap,
     styles |-> [default |-> [responsiveStyles |-> getElementResponsiveStyles(el)]]]

\* stands for "no node" where a record is needed (a null or a thrown result)
NoNode ==
    [type |-> "<none>", uid |-> 0,
     metadata |-> [tagName |-> "<none>", elementPath |-> <<>>,
                   componentMapping |-> NoComponentMapping,
                   mediaInfo |-> NoMediaInfo, formInfo |-> FALSE,
                   linkInfo |-> NoLinkInfo],
     attrs |-> EmptyMap, props |-> EmptyMap, slots |-> EmptyMap,
     styles |-> [default |-> [responsiveStyles |->
                    [default |-> EmptyMap, tablet |-> EmptyMap, mobile |-> EmptyMap]]]]

MEDIA_TAGS == {"IMG", "VIDEO"}

\* element.tagName, which is in upper case for an HTML element; the model keeps
\* tags in lower case and only the media tags are compared in upper case
tagName(el) ==
    IF el.tag = "img" THEN "IMG" ELSE IF el.tag = "video" THEN "VIDEO" ELSE el.tag

HTML_RTE_COMPONENTS == {"richTextEditor", "htmlRte"}

HeadingTags == {"h1", "h2", "h3", "h4", "h5", "h6"}

\* element.children.length === 0 && element.textContent.trim()
hasOnlyTextContent(el) == Len(children(el)) = 0 /\ trim(textContent(el)) # <<>>

\* getComponentName without the look at the computed style of a div
getComponentName_NoComputedStyle(el) ==
    IF el.tag \in HeadingTags THEN "header"
    ELSE IF el.tag = "a"
         THEN (IF Len(children(el)) > 0 THEN "link-container" ELSE "link")
    ELSE IF el.tag = "video" THEN "video"
    ELSE IF el.tag = "section" THEN "section"
    ELSE IF el.tag \in {"p", "span", "label"} THEN "text"
    ELSE IF el.tag = "button" THEN "button"
    ELSE IF el.tag \in {"img", "svg"} THEN "image"
    ELSE IF hasOnlyTextContent(el) THEN "text"
    ELSE "box"

\* browserUtils.getComponentName
getComponentName(el) ==
    IF el.tag \in HeadingTags THEN "header"
    ELSE IF el.tag = "a"
         THEN (IF Len(children(el)) > 0 THEN "link-container" ELSE "link")
    ELSE IF el.tag = "video" THEN "video"
    ELSE IF el.tag = "section" THEN "section"
    ELSE IF el.tag \in {"p", "span", "label"} THEN "text"
    ELSE IF el.tag = "button" THEN "button"
    ELSE IF el.tag \in {"img", "svg"} THEN "image"
    ELSE IF el.tag = "div"
         THEN (IF hasOnlyTextContent(el) THEN "text"
               ELSE IF el.cs["display"] = "flex"
                    THEN (IF el.cs["flex-direction"] = "column" THEN "vstack"
                          ELSE "hstack")
               ELSE IF el.cs["display"] = "grid" THEN "box"
               ELSE "box")
    ELSE IF hasOnlyTextContent(el) THEN "text"
    ELSE "box"

\* the hasTruncation test of getFullTextContent
hasTruncation(el) ==
    \/ classListContains(el, "line-clamp-3")
    \/ classListContains(el, "line-clamp-2")
    \/ classListContains(el, "line-clamp-1")
    \/ inlineStyleIs(el, "text-overflow", "ellipsis")
    \/ inlineStyleIs(el, "overflow", "hidden")

\* browserUtils.getFullTextContent: the truncation path changes four inline
\* styles, reads textContent, which no style affects, and restores them
getFullTextContent(el) ==
    IF hasTruncation(el) THEN trim(textContent(el)) ELSE trim(textContent(el))

ThreeDots == <<".", ".", ".">>

\* browserUtils.handleTextNode, as the new value of elementJSON.props
handleTextNode(text, props, previousValue) ==
    IF trim(text) = <<>> THEN props
    ELSE LET cleanText == StripTrailingDots(trim(text))
         IN  IF cleanText = ThreeDots \/ cleanText = <<>> THEN props
             ELSE LET str == IF previousValue # <<>>
                             THEN previousValue \o <<" ">> \o cleanText
                             ELSE cleanText
                  IN  [x \in DOMAIN props \cup {"text"} |->
                          IF x = "text" THEN Desc("string", str, 0) ELSE props[x]]

\* childJSON?.props?.text?.staticString, '' when there is none
previousText(props) ==
    IF "text" \in DOMAIN props THEN props["text"].staticString ELSE <<>>

\* browserUtils.handleButtonElement, as the new value of elementJSON.props
handleButtonElement(text, props) ==
    [x \in DOMAIN props \cup {"label"} |->
        IF x = "label" THEN Desc("string", text, 0) ELSE props[x]]

HttpPrefix == <<"h", "t", "t", "p">>

MailtoPrefix == <<"m", "a", "i", "l", "t", "o", ":">>

TelPrefix == <<"t", "e", "l", ":">>

\* the is* flags of linkInfo, as the JavaScript values the && expressions yield
linkFlags(href) ==
    [isExternal |->
         JsAnd(href, JsBool(startsWith(href.s, HttpPrefix)
                            \/ startsWith(href.s, <<"/", "/">>))),
     isInternal |-> JsAnd(href, JsBool(startsWith(href.s, <<"#">>))),
     isEmail |-> JsAnd(href, JsBool(startsWith(href.s, MailtoPrefix))),
     isPhone |-> JsAnd(href, JsBool(startsWith(href.s, TelPrefix)))]

\* browserUtils.handleLinkElement; props.href holds the href as a JavaScript
\* value, null when the anchor has no href attribute
handleLinkElement(el, elementJSON) ==
    IF el.tag # "a" THEN elementJSON
    ELSE
    LET href == getAttribute(el, "href")
        target == getAttribute(el, "target")
        rel == getAttribute(el, "rel")
        text == trim(textContent(el))
        flags == linkFlags(href)
        added == {"href", "label"}
                     \cup (IF JsTruthy(target) THEN {"target"} ELSE {})
                     \cup (IF JsTruthy(rel) THEN {"rel"} ELSE {})
    IN  [elementJSON EXCEPT
            !.props = [x \in DOMAIN @ \cup added |->
                          IF x = "href" THEN Desc("string", href, 0)
                          ELSE IF x = "label" THEN Desc("string", text, 0)
                          ELSE IF x = "target" /\ JsTruthy(target)
                               THEN Desc("string", target.s, 0)
                          ELSE IF x = "rel" /\ JsTruthy(rel)
                               THEN Desc("string", rel.s, 0)
                          ELSE @[x]],
            !.metadata.linkInfo =
                [set |-> TRUE, href |-> href,
                 target |-> IF JsTruthy(target) THEN target.s
                            ELSE <<"_", "s", "e", "l", "f">>,
                 rel |-> IF JsTruthy(rel) THEN rel.s ELSE <<>>,
                 isExternal |-> flags.isExternal, isInternal |-> flags.isInternal,
                 isEmail |-> flags.isEmail, isPhone |-> flags.isPhone,
                 textContent |-> text]]

(***************************************************************************)
(* Component mappings.  An entry is                                        *)
(*   [nodeIds, codeComponentName, propMappings, figmaComponentKey]         *)
(* with nodeIds a sequence of [nodeId, variantProperties].                 *)
(***************************************************************************)
NoComponent ==
    [nodeId |-> Undefined, codeComponentName |-> Undefined, propMappings |-> EmptyMap,
     variantProperties |-> Undefined, figmaComponentKey |-> Undefined]

\* componentMapping.nodeIds.find(node => node.nodeId === figmaNodeId):
\* the index of the first such node, 0 when there is none
RECURSIVE FindNodeFrom(_, _, _)
FindNodeFrom(nodeIds, figmaNodeId, i) ==
    IF i > Len(nodeIds) THEN 0
    ELSE IF nodeIds[i].nodeId = figmaNodeId THEN i
    ELSE FindNodeFrom(nodeIds, figmaNodeId, i + 1)

FindNode(nodeIds, figmaNodeId) == FindNodeFrom(nodeIds, figmaNodeId, 1)

\* the body of the forEach callback: a matching entry overwrites component
MatchStep(component, componentMapping, figmaNodeId) ==
    LET i == FindNode(componentMapping.nodeIds, figmaNodeId)
    IN  IF i = 0 THEN component
        ELSE [nodeId |-> componentMapping.nodeIds[i].nodeId,
              codeComponentName |-> componentMapping.codeComponentName,
              propMappings |-> componentMapping.propMappings,
              variantProperties |-> componentMapping.nodeIds[i].variantProperties,
              figmaComponentKey |-> componentMapping.figmaComponentKey]

\* componentMappings.forEach(...), from entry i on
RECURSIVE MatchComponentFrom(_, _, _, _)
MatchComponentFrom(componentMappings, figmaNodeId, i, component) ==
    IF i > Len(componentMappings) THEN component
    ELSE MatchComponentFrom(componentMappings, figmaNodeId, i + 1,
                            MatchStep(component, componentMappings[i], figmaNodeId))

MatchComponent(componentMappings, figmaNodeId) ==
    MatchComponentFrom(componentMappings, figmaNodeId, 1, NoComponent)

\* handleCustomComponents leaving the Classifier's type on the node
handleCustomComponents_KeepsType(elementJSON, component) ==
    [elementJSON EXCEPT
        !.props = [x \in DOMAIN @ \cup DOMAIN component.propMappings |->
                      IF x \in DOMAIN component.propMappings
                      THEN component.propMappings[x] ELSE @[x]],
        !.metadata.componentMapping =
            [set |-> TRUE, figmaNodeId |-> component.nodeId,
             codeComponentName |-> component.codeComponentName,
             figmaComponentKey |-> component.figmaComponentKey,
             variantProperties |-> component.variantProperties]]

\* browserUtils.handleCustomComponents
handleCustomComponents(elementJSON, component) ==
    [elementJSON EXCEPT
        !.type = IF Truthy(component.codeComponentName)
                 THEN component.codeComponentName ELSE @,
        !.props = [x \in DOMAIN @ \cup DOMAIN component.propMappings |->
                      IF x \in DOMAIN component.propMappings
                      THEN component.propMappings[x] ELSE @[x]],
        !.metadata.componentMapping =
            IF Truthy(component.nodeId)
            THEN [set |-> TRUE, figmaNodeId |-> component.nodeId,
                  codeComponentName |-> component.codeComponentName,
                  figmaComponentKey |-> component.figmaComponentKey,
                  variantProperties |-> component.variantProperties]
            ELSE @]

(***************************************************************************)
(* The tree converter.  A call threads the state                           *)
(*   next   the next value of the uid generator (generateUUID is taken to  *)
(*          return a fresh value on every call)                            *)
(*   calls  the path of every element the converter was called on, in call *)
(*          order (a path is the sequence of childNodes indices from the   *)
(*          root)                                                          *)
(* and returns [threw, isNull, node, st]: an exception, null, or a node.   *)
(***************************************************************************)
\* next: the next uid; calls: the paths of the elements converted so far;
\* appended: the value each node had when children.push(node) ran, in order
ConvState0 == [next |-> 1, calls |-> <<>>, appended |-> <<>>]

Res(threw, isNull, node, st) ==
    [threw |-> threw, isNull |-> isNull, node |-> node, st |-> st]

\* browserUtils.handleImageElement
handleImageElement(el, elementJSON) ==
    IF tagName(el) # "IMG" THEN elementJSON
    ELSE [elementJSON EXCEPT
            !.props = [x \in DOMAIN @ \cup {"src", "alt"} |->
                          IF x = "src" THEN Desc("imageUrl", <<"u">>, 0)
                          ELSE IF x = "alt" THEN Desc("string", <<>>, 0)
                          ELSE @[x]],
            !.metadata.mediaInfo = [set |-> TRUE, type |-> "image", sources |-> 0]]

\* browserUtils.handleVideoElement: sources[0] is undefined when the video has no
\* <source> descendant, and sources[0].getAttribute then throws a TypeError
handleVideoElement(el, elementJSON) ==
    IF tagName(el) # "VIDEO" THEN [threw |-> FALSE, node |-> elementJSON]
    ELSE LET sources == getElementsByTagName(el, "source")
         IN  IF Len(sources) = 0 THEN [threw |-> TRUE, node |-> elementJSON]
             ELSE [threw |-> FALSE,
                   node |-> [elementJSON EXCEPT
                       !.attrs = [x \in DOMAIN @ \cup {"src", "type"} |-> "source0"],
                       !.metadata.mediaInfo =
                           [set |-> TRUE, type |-> "video", sources |-> Len(sources)]]]

\* "Add children to slots": one slot id, the ordered child list under it, and a
\* children property of type slot naming it
\* children.unshift(childJSON) in place of children.push(childJSON)
AttachChildren_Reversed(elementJSON, uid, kidNodes) ==
    LET unshifted == [k \in 1..Len(kidNodes) |-> kidNodes[Len(kidNodes) + 1 - k]]
    IN  IF Len(kidNodes) = 0 THEN elementJSON
        ELSE [elementJSON EXCEPT
                !.props = [x \in DOMAIN @ \cup {"children"} |->
                              IF x = "children" THEN Desc("slot", <<>>, uid) ELSE @[x]],
                !.slots = [x \in DOMAIN @ \cup {uid} |->
                              IF x = uid THEN unshifted ELSE @[x]]]

AttachChildren(elementJSON, uid, kidNodes) ==
    IF Len(kidNodes) = 0 THEN elementJSON
    ELSE [elementJSON EXCEPT
            !.props = [x \in DOMAIN @ \cup {"children"} |->
                          IF x = "children" THEN Desc("slot", <<>>, uid) ELSE @[x]],
            !.slots = [x \in DOMAIN @ \cup {uid} |->
                          IF x = uid THEN kidNodes ELSE @[x]]]

\* an entry of the children array: a node, or a reference to the one childJSON
\* object of the line-break branch (the array holds the object, not a copy)
Entry(ref, node) == [ref |-> ref, node |-> node]

\* the children array with every reference to childJSON read at the end
RECURSIVE Deref(_, _)
Deref(entries, childJSON) ==
    IF entries = <<>> THEN <<>>
    ELSE <<IF Head(entries).ref THEN childJSON ELSE Head(entries).node>>
         \o Deref(Tail(entries), childJSON)

hasBrElement(el) == \E i \in 1..Len(el.kids) : el.kids[i].tag = "br"

RECURSIVE convertHTMLToComposableJSON(_, _, _, _)
RECURSIVE BrLoop(_, _, _, _, _)
RECURSIVE DefaultLoop(_, _, _, _, _)

\* the for loop of the default branch, from child node i on;
\* acc = [props, children, st, threw]
DefaultLoop(el, path, componentMappings, i, acc) ==
    IF acc.threw \/ i > Len(el.kids) THEN acc
    ELSE LET childNode == el.kids[i]
         IN  IF childNode.kind = "text"
             THEN DefaultLoop(el, path, componentMappings, i + 1,
                    [acc EXCEPT !.props =
                        IF el.tag # "a"
                        THEN handleTextNode(getFullTextContent(el), @, <<>>)
                        ELSE @])
             ELSE IF childNode.kind = "element"
             THEN LET r == convertHTMLToComposableJSON(
                               childNode, Append(path, i), componentMappings, acc.st)
                  IN  DefaultLoop(el, path, componentMappings, i + 1,
                        [acc EXCEPT
                            !.st = IF r.threw \/ r.isNull THEN r.st
                                   ELSE [r.st EXCEPT !.appended = Append(@, r.node)],
                            !.threw = r.threw,
                            !.children = IF r.threw \/ r.isNull THEN @
                                         ELSE Append(@, r.node)])
             ELSE DefaultLoop(el, path, componentMappings, i + 1, acc)

\* the for loop of the line-break branch, from child node i on;
\* acc = [child (childJSON as created), cprops (props of childJSON),
\*        children (entries), box, st, threw]
BrLoop(el, path, componentMappings, i, acc) ==
    IF acc.threw \/ i > Len(el.kids) THEN acc
    ELSE LET childNode == el.kids[i]
             boundary == \/ i + 1 > Len(el.kids)
                         \/ /\ i + 1 <= Len(el.kids)
                            /\ el.kids[i + 1].kind # "text"
                            /\ el.kids[i + 1].tag # "br"
         IN  IF childNode.tag = "br"
             THEN BrLoop(el, path, componentMappings, i + 1, acc)
             ELSE IF childNode.kind = "text"
             THEN BrLoop(el, path, componentMappings, i + 1,
                    [acc EXCEPT
                        !.cprops = handleTextNode(getFullTextContent(el), @,
                                                  previousText(@)),
                        !.children = IF boundary THEN Append(@, Entry(TRUE, NoNode))
                                     ELSE @,
                        !.st = IF boundary
                               THEN [@ EXCEPT !.appended = Append(@,
                                       [acc.child EXCEPT !.props =
                                           handleTextNode(getFullTextContent(el),
                                               acc.cprops, previousText(acc.cprops))])]
                               ELSE @,
                        !.box = TRUE])
             ELSE IF childNode.kind = "element"
             THEN LET r == convertHTMLToComposableJSON(
                               childNode, Append(path, i), componentMappings, acc.st)
                  IN  BrLoop(el, path, componentMappings, i + 1,
                        [acc EXCEPT
                            !.st = IF r.threw \/ r.isNull THEN r.st
                                   ELSE [r.st EXCEPT !.appended = Append(@, r.node)],
                            !.threw = r.threw,
                            !.children = IF r.threw \/ r.isNull THEN @
                                         ELSE Append(@, Entry(FALSE, r.node))])
             ELSE BrLoop(el, path, componentMappings, i + 1, acc)

\* async function convertHTMLToComposableJSON(element, componentMappings, designTokens)
convertHTMLToComposableJSON(el, path, componentMappings, st0) ==
    LET stCalled == [st0 EXCEPT !.calls = Append(@, path)]
    IN
    IF el.tag = "br" THEN Res(FALSE, TRUE, NoNode, stCalled)
    ELSE
    LET component == MatchComponent(componentMappings, el.fid)
        componentName == getComponentName(el)
        elementJSON == NewNode(componentName, stCalled.next, el, path,
                               getElementAttributes(el))
        st1 == [stCalled EXCEPT !.next = @ + 1]
    IN
    IF Truthy(component.nodeId)
    THEN Res(FALSE, FALSE, handleCustomComponents(elementJSON, component), st1)
    ELSE
    LET uid == st1.next
        st2 == [st1 EXCEPT !.next = @ + 1]
    IN
    IF el.tag = "div" /\ Len(el.kids) = 0 /\ textContent(el) # <<>>
    THEN \* "div elements with text content"
         LET text == getFullTextContent(el)
             childJSON == NewNode("text", st2.next, el, path, EmptyMap)
             st3 == [st2 EXCEPT !.next = @ + 1]
             kidNodes == IF trim(text) # <<>>
                         THEN <<[childJSON EXCEPT
                                   !.props = handleTextNode(text, @, <<>>)]>>
                         ELSE <<>>
         IN  Res(FALSE, FALSE, AttachChildren(elementJSON, uid, kidNodes),
                 [st3 EXCEPT !.appended = @ \o kidNodes])
    ELSE IF hasBrElement(el) /\ componentName \notin HTML_RTE_COMPONENTS
    THEN \* "Handle br elements"
         LET childJSON == NewNode(componentName, st2.next, el, path, EmptyMap)
             st3 == [st2 EXCEPT !.next = @ + 1]
             loop == BrLoop(el, path, componentMappings, 1,
                        [child |-> childJSON, cprops |-> EmptyMap,
                         children |-> <<>>, box |-> FALSE,
                         st |-> st3, threw |-> FALSE])
             typed == [elementJSON EXCEPT !.type = IF loop.box THEN "box" ELSE @]
             kidNodes == Deref(loop.children, [childJSON EXCEPT !.props = loop.cprops])
         IN  IF loop.threw THEN Res(TRUE, FALSE, NoNode, loop.st)
             ELSE Res(FALSE, FALSE, AttachChildren(typed, uid, kidNodes), loop.st)
    ELSE IF componentName \in HTML_RTE_COMPONENTS /\ Len(el.kids) > 0
    THEN Res(FALSE, FALSE,
             [elementJSON EXCEPT !.props =
                 [x \in DOMAIN @ \cup {"html"} |->
                     IF x = "html" THEN Desc("string", <<"h">>, 0) ELSE @[x]]], st2)
    ELSE IF el.tag = "svg"
    THEN Res(FALSE, FALSE,
             [elementJSON EXCEPT !.props =
                 [x \in DOMAIN @ \cup {"src"} |->
                     IF x = "src" THEN Desc("imageUrl", <<"d">>, 0) ELSE @[x]]], st2)
    ELSE
    LET labelled == IF el.tag = "button"
                    THEN [elementJSON EXCEPT
                            !.props = handleButtonElement(getFullTextContent(el), @)]
                    ELSE IF el.tag = "a"
                    THEN handleLinkElement(el, elementJSON)
                    ELSE elementJSON
        formed == [labelled EXCEPT !.metadata.formInfo =
                      el.tag \in {"input", "textarea", "select", "form"}]
    IN
    IF tagName(el) \in MEDIA_TAGS
    THEN LET v == handleVideoElement(el, handleImageElement(el, formed))
         IN  IF v.threw THEN Res(TRUE, FALSE, NoNode, st2)
             ELSE Res(FALSE, FALSE, v.node, st2)
    ELSE
    LET loop == DefaultLoop(el, path, componentMappings, 1,
                    [props |-> formed.props, children |-> <<>>,
                     st |-> st2, threw |-> FALSE])
    IN  IF loop.threw THEN Res(TRUE, FALSE, NoNode, loop.st)
        ELSE Res(FALSE, FALSE,
                 AttachChildren([formed EXCEPT !.props = loop.props], uid,
                                loop.children),
                 loop.st)

(***************************************************************************)
(* Inputs: component-mapping entries and documents                         *)
(***************************************************************************)
NodeId(id, variantProperties) ==
    [nodeId |-> id, variantProperties |-> variantProperties]

MappingEntry(nodeIds, name, propMappings) ==
    [nodeIds |-> nodeIds, codeComponentName |-> name,
     propMappings |-> propMappings, figmaComponentKey |-> "key"]

\* a propMappings object that sets the children property
ChildrenProp == [x \in {"children"} |-> Desc("slot", <<>>, 0)]

MappingEntries ==
    { MappingEntry(<<NodeId("n1", "A")>>, "Card", EmptyMap),
      MappingEntry(<<NodeId("n1", "A")>>, "Hero", EmptyMap),
      MappingEntry(<<NodeId("n1", "A")>>, "", EmptyMap),
      MappingEntry(<<NodeId("n1", "A"), NodeId("n1", "B")>>, "Hero", EmptyMap),
      MappingEntry(<<NodeId("", "A")>>, "Card", EmptyMap),
      MappingEntry(<<NodeId("n1", "A")>>, "Card", ChildrenProp) }

Txt == TextNode(<<"a">>)

\* the nodes the documents of SpecTree are built from
TreeLabels ==
    { Txt, Elem("br", NoAttr, <<>>), Elem("div", NoAttr, <<>>),
      Elem("video", NoAttr, <<>>), Elem("source", NoAttr, <<>>),
      Elem("svg", NoAttr, <<>>) }

\* the nodes the documents of SpecMap are built from
MapLabels ==
    { Txt, Elem("div", NoAttr, <<>>), Elem("div", "n1", <<>>), Elem("div", "", <<>>) }

\* elements that take no child nodes
VoidTags == {"br", "source", "img", "input"}

EmptyBody == Elem("body", NoAttr, <<>>)

\* document.body is null
NoBody == Elem("<nobody>", NoAttr, <<>>)

DocA == Elem("body", NoAttr, <<Elem("div", NoAttr, <<Txt>>)>>)

DocB ==
    Elem("body", NoAttr,
         <<Elem("div", "n1", <<Txt>>), Elem("p", NoAttr, <<Txt, Elem("br", NoAttr, <<>>), Txt>>)>>)

\* a page with a <video> that declares no <source>
DocVideo ==
    Elem("body", NoAttr, <<Elem("div", NoAttr, <<Txt>>), Elem("video", NoAttr, <<>>)>>)

PageDocs == {DocA, DocB, DocVideo}

\* the options.componentMappings of a request or of a direct call
DriverOptions == { <<>>, <<MappingEntry(<<NodeId("n1", "A")>>, "Card", EmptyMap)>> }

\* the number of nodes below the root
RECURSIVE NodeCount(_)
RECURSIVE NodeCountOfList(_)
NodeCount(n) == NodeCountOfList(n.kids)

NodeCountOfList(ns) ==
    IF ns = <<>> THEN 0
    ELSE 1 + NodeCount(Head(ns)) + NodeCountOfList(Tail(ns))

(***************************************************************************)
(* The driver: entry points, cache, messages                               *)
(***************************************************************************)
O5173 == "http://localhost:5173"

O5174 == "http://localhost:5174"

OOther == "https://other.example"

Origins == {O5173, O5174, OOther}

\* a conversion result: the tree, with the run that produced it standing for
\* the random uids of that run
Result(id, tree) == [run |-> id, tree |-> tree]

\* null / undefined where a result is expected
NullResult == Result(0, NoNode)

Msg(type, data, error, target, req, url) ==
    [type |-> type, data |-> data, error |-> error, target |-> target,
     req |-> req, url |-> url]

IdleRun == [entry |-> "none", id |-> 0, options |-> <<>>, targetOrigin |-> "*"]

VARIABLES
    body,                  \* document.body, NoBody when there is none
    lastConversionResult,  \* let lastConversionResult
    outbox,                \* the messages posted to window.parent, in order
    run,                   \* the entry-point call whose promise is pending
    pending,               \* how the convertPageToJSON call of run ends
    returned,              \* how every entry-point call settled, in order
    requests,              \* the ids of the requests the converter's listener took up
    downloads,             \* the runs whose result downloadJSON was called with
    lastSuccess,           \* the result of the latest run that converted the page
    nEvents,               \* events so far
    nRuns,                 \* ids handed out so far
    timers,                \* pending setTimeout callbacks of MessageHandler (their origin)
    parentOrigin,          \* MessageHandler.parentOrigin
    conversionPayload,     \* what MessageHandler.getConversionPayload finds
    location,              \* window.location
    currentUrl,            \* NavigationTracker.currentUrl
    dom,                   \* the element a tree conversion is applied to
    maps,                  \* the componentMappings of a tree conversion
    out,                   \* the outcome of the tree conversion
    input,                 \* the argument of a helper function applied on its own
    output                 \* the values the helper returned, in call order

driverVars ==
    <<body, lastConversionResult, outbox, run, pending, returned, requests,
      downloads, lastSuccess, nEvents, nRuns, timers, parentOrigin,
      conversionPayload, location, currentUrl>>

treeVars == <<dom, maps, out>>

pureVars == <<input, output>>

vars == <<driverVars, treeVars, pureVars>>

\* async function convertPageToJSON(options): [threw, value]
convertPageToJSON(b, componentMappings, id) ==
    IF b = NoBody THEN [threw |-> TRUE, value |-> NullResult]
    ELSE LET r == convertHTMLToComposableJSON(b, <<>>, componentMappings, ConvState0)
         IN  IF r.threw THEN [threw |-> TRUE, value |-> NullResult]
             ELSE IF r.isNull THEN [threw |-> TRUE, value |-> NullResult]
             ELSE [threw |-> FALSE, value |-> Result(id, r.node)]

\* no entry-point call is pending
NoPending == [threw |-> FALSE, value |-> NullResult]

\* what a settled entry-point call leaves behind
Outcome(cache, downloaded, posts, settled, value) ==
    [cache |-> cache, downloaded |-> downloaded, posts |-> posts,
     settled |-> settled, value |-> value]

\* a direct call of convertPageToJSON, whose catch rethrows; r is how the
\* conversion ended
convertPageToJSONCall(r, targetOrigin, id, cache) ==
    IF r.threw THEN Outcome(cache, FALSE, <<>>, "rejected", NullResult)
    ELSE Outcome(cache, FALSE, <<>>, "fulfilled", r.value)

\* convertAndDownload storing its result in lastConversionResult
convertAndDownload_Caches(r, targetOrigin, id, cache) ==
    IF r.threw THEN Outcome(cache, FALSE, <<>>, "fulfilled", NullResult)
    ELSE Outcome(r.value, TRUE, <<>>, "fulfilled", r.value)

\* async function convertAndDownload(options), from the await of
\* convertPageToJSON on: the catch logs and returns nothing
convertAndDownload(r, targetOrigin, id, cache) ==
    IF r.threw THEN Outcome(cache, FALSE, <<>>, "fulfilled", NullResult)
    ELSE Outcome(cache, TRUE, <<>>, "fulfilled", r.value)

\* convertAndSendToStudio posting to '*' whatever targetOrigin is
convertAndSendToStudio_Wildcard(r, targetOrigin, id, cache) ==
    IF r.threw
    THEN Outcome(cache, FALSE,
                 <<Msg("html-to-json-error", NullResult, "error.message", "*", id, "")>>,
                 "fulfilled", NullResult)
    ELSE Outcome(r.value, TRUE,
                 <<Msg("html-to-json-response", r.value, "", "*", id, "")>>,
                 "fulfilled", r.value)

\* convertAndSendToStudio with a catch that only logs
convertAndSendToStudio_SilentCatch(r, targetOrigin, id, cache) ==
    IF r.threw
    THEN Outcome(cache, FALSE, <<>>, "fulfilled", NullResult)
    ELSE Outcome(r.value, TRUE,
                 <<Msg("html-to-json-response", r.value, "", targetOrigin, id, "")>>,
                 "fulfilled", r.value)

\* convertAndSendToStudio posting the response before it looks at the result
convertAndSendToStudio_RespondsFirst(r, targetOrigin, id, cache) ==
    IF r.threw
    THEN Outcome(cache, FALSE,
                 <<Msg("html-to-json-response", r.value, "", targetOrigin, id, ""),
                   Msg("html-to-json-error", NullResult, "error.message",
                       targetOrigin, id, "")>>,
                 "fulfilled", NullResult)
    ELSE Outcome(r.value, TRUE,
                 <<Msg("html-to-json-response", r.value, "", targetOrigin, id, "")>>,
                 "fulfilled", r.value)

\* async function convertAndSendToStudio(options, targetOrigin), from the await
\* of convertPageToJSON on
convertAndSendToStudio(r, targetOrigin, id, cache) ==
    IF r.threw
    THEN Outcome(cache, FALSE,
                 <<Msg("html-to-json-error", NullResult, "error.message",
                       targetOrigin, id, "")>>,
                 "fulfilled", NullResult)
    ELSE Outcome(r.value, TRUE,
                 <<Msg("html-to-json-response", r.value, "", targetOrigin, id, "")>>,
                 "fulfilled", r.value)

(***************************************************************************)
(* Message events and the two 'message' listeners                          *)
(***************************************************************************)
RequestType == "request-html-to-json"

\* dtype "<nodata>" is an event whose data is null (not an object)
DataTypes == {RequestType, "html-to-json-result", "<nodata>"}

MessageEvents ==
    { ev \in [source : {"parent", "other"}, origin : Origins,
              dtype : DataTypes, options : DriverOptions] :
          ev.dtype = RequestType \/ ev.options = <<>> }

\* the origin test of the converter's listener
ListenerAccepts(ev) == ~(ev.origin # O5174 /\ ev.origin # O5173)

\* the converter's listener goes on to read event.data.type, which throws on
\* null data, and reacts to a request only
ListenerTakesRequest(ev) ==
    ListenerAccepts(ev) /\ ev.dtype # "<nodata>" /\ ev.dtype = RequestType

\* the guards of MessageHandler.handleMessage
MessageHandlerAccepts(ev, expectedOrigin) ==
    /\ ~(ev.source # "parent")
    /\ ~(ev.origin # expectedOrigin)
    /\ ev.dtype # "<nodata>"

Urls == {"/", "/blog"}

NullPayload == "<null>"

NotRun == [done |-> FALSE, res |-> Res(FALSE, TRUE, NoNode, ConvState0)]

TreeIdle == dom = EmptyBody /\ maps = <<>> /\ out = NotRun

PureIdle == input = <<>> /\ output = <<>>

Init ==
    /\ body \in PageDocs \cup {NoBody}
    /\ lastConversionResult = NullResult
    /\ parentOrigin \in {O5173, O5174}
    \* the NavigationListener constructor sends the initial navigation message
    /\ outbox = <<Msg("navigation", NullResult, "", parentOrigin, 0, "/")>>
    /\ run = IdleRun
    /\ pending = NoPending
    /\ returned = <<>>
    /\ requests = {}
    /\ downloads = {}
    /\ lastSuccess = NullResult
    /\ nEvents = 0
    /\ nRuns = 0
    /\ timers = <<>>
    /\ conversionPayload \in {NullPayload, "payload"}
    /\ location = "/"
    /\ currentUrl = "/"
    /\ TreeIdle
    /\ PureIdle

\* no macrotask runs while the promise of an entry-point call is pending: the
\* conversion awaits nothing but its own recursive calls
CanTakeEvent == run = IdleRun /\ nEvents < MaxEvents

\* one 'message' event, dispatched to the converter's listener and to
\* MessageHandler.handleMessage
WindowMessage(ev) ==
    /\ CanTakeEvent
    /\ nEvents' = nEvents + 1
    /\ IF ListenerTakesRequest(ev)
       THEN /\ nRuns' = nRuns + 1
            /\ requests' = requests \cup {nRuns + 1}
            /\ IF lastConversionResult # NullResult
               THEN /\ outbox' = Append(outbox,
                          Msg("html-to-json-response", lastConversionResult, "",
                              ev.origin, nRuns + 1, ""))
                    /\ UNCHANGED <<run, pending>>
               ELSE /\ run' = [entry |-> "studio", id |-> nRuns + 1,
                               options |-> ev.options, targetOrigin |-> ev.origin]
                    /\ pending' = convertPageToJSON(body, ev.options, nRuns + 1)
                    /\ outbox' = outbox
       ELSE UNCHANGED <<nRuns, requests, outbox, run, pending>>
    /\ timers' = IF MessageHandlerAccepts(ev, parentOrigin) /\ ev.dtype = RequestType
                 THEN Append(timers, ev.origin)
                 ELSE timers
    /\ UNCHANGED <<body, lastConversionResult, returned, downloads,
                   lastSuccess, parentOrigin, conversionPayload, location, currentUrl, treeVars, pureVars>>

\* the setTimeout callback of MessageHandler.handleHtmlToJsonRequest
TimerFires ==
    /\ run = IdleRun
    /\ timers # <<>>
    /\ timers' = Tail(timers)
    /\ outbox' = IF conversionPayload # NullPayload
                 THEN Append(outbox, Msg("html-to-json-result", NullResult, "",
                                         Head(timers), 0, ""))
                 ELSE outbox
    /\ UNCHANGED <<body, lastConversionResult, run, pending, returned, requests,
                   downloads, lastSuccess, nEvents, nRuns, parentOrigin,
                   conversionPayload, location, currentUrl, treeVars, pureVars>>

\* a script calls one of the entry points: the call runs up to its await of
\* convertPageToJSON and leaves the rest to RunSettles
StartRun(entry, options, targetOrigin) ==
    /\ CanTakeEvent
    /\ nEvents' = nEvents + 1
    /\ nRuns' = nRuns + 1
    /\ run' = [entry |-> entry, id |-> nRuns + 1, options |-> options,
               targetOrigin |-> targetOrigin]
    /\ pending' = convertPageToJSON(body, options, nRuns + 1)
    /\ UNCHANGED <<body, lastConversionResult, outbox, returned, requests,
                   downloads, lastSuccess, timers, parentOrigin, conversionPayload,
                   location, currentUrl, treeVars, pureVars>>

CallConvertPageToJSON == \E o \in DriverOptions : StartRun("page", o, "*")

CallConvertAndDownload == \E o \in DriverOptions : StartRun("download", o, "*")

CallConvertAndSendToStudio ==
    \E o \in DriverOptions, t \in {"*", O5173} : StartRun("studio", o, t)

RunOutcome(entry, r, targetOrigin, id, cache) ==
    IF entry = "page" THEN convertPageToJSONCall(r, targetOrigin, id, cache)
    ELSE IF entry = "download" THEN convertAndDownload(r, targetOrigin, id, cache)
    ELSE convertAndSendToStudio(r, targetOrigin, id, cache)

\* the pending call runs from its await of convertPageToJSON to its end
RunSettles ==
    /\ run # IdleRun
    /\ LET o == RunOutcome(run.entry, pending, run.targetOrigin, run.id,
                           lastConversionResult)
       IN  /\ lastConversionResult' = o.cache
           /\ outbox' = outbox \o o.posts
           /\ downloads' = IF o.downloaded THEN downloads \cup {run.id} ELSE downloads
           /\ returned' = Append(returned,
                  [entry |-> run.entry, id |-> run.id, settled |-> o.settled,
                   value |-> o.value, failed |-> pending.threw,
                   targetOrigin |-> run.targetOrigin])
    /\ lastSuccess' = IF pending.threw THEN lastSuccess ELSE pending.value
    /\ run' = IdleRun
    /\ pending' = NoPending
    /\ UNCHANGED <<body, requests, nEvents, nRuns, timers, parentOrigin,
                   conversionPayload, location, currentUrl, treeVars, pureVars>>

\* the page replaces its content
DomChange ==
    /\ CanTakeEvent
    /\ nEvents' = nEvents + 1
    /\ \E d \in PageDocs : d # body /\ body' = d
    /\ UNCHANGED <<lastConversionResult, outbox, run, pending, returned, requests,
                   downloads, lastSuccess, nRuns, timers, parentOrigin,
                   conversionPayload, location, currentUrl, treeVars, pureVars>>

\* history.pushState / replaceState / popstate, then
\* NavigationTracker.handleNavigation and the onNavigationChange the
\* NavigationListener installs
PushState ==
    /\ CanTakeEvent
    /\ nEvents' = nEvents + 1
    /\ \E u \in Urls :
          /\ location' = u
          /\ IF u # currentUrl
             THEN /\ currentUrl' = u
                  /\ outbox' = Append(outbox,
                         Msg("navigation", NullResult, "", parentOrigin, 0, u))
             ELSE UNCHANGED <<currentUrl, outbox>>
    /\ UNCHANGED <<body, lastConversionResult, run, pending, returned, requests,
                   downloads, lastSuccess, nRuns, timers, parentOrigin,
                   conversionPayload, treeVars, pureVars>>

Message == \E ev \in MessageEvents : WindowMessage(ev)

Next ==
    \/ Message
    \/ TimerFires
    \/ CallConvertPageToJSON
    \/ CallConvertAndDownload
    \/ CallConvertAndSendToStudio
    \/ RunSettles
    \/ DomChange
    \/ PushState

Spec == Init /\ [][Next]_vars

\* a pending call always runs to its end: its continuations are microtasks,
\* which the event loop runs before it takes the next event
FairSpec == Spec /\ WF_vars(RunSettles)

(***************************************************************************)
(* The tree converter applied to bounded documents                         *)
(***************************************************************************)
DriverIdle ==
    /\ body = NoBody
    /\ lastConversionResult = NullResult
    /\ parentOrigin = O5173
    /\ outbox = <<>>
    /\ run = IdleRun
    /\ pending = NoPending
    /\ returned = <<>>
    /\ requests = {}
    /\ downloads = {}
    /\ lastSuccess = NullResult
    /\ nEvents = 0
    /\ nRuns = 0
    /\ timers = <<>>
    /\ conversionPayload = NullPayload
    /\ location = "/"
    /\ currentUrl = "/"

InitTree == DriverIdle /\ TreeIdle /\ PureIdle

\* n appended to the child nodes of el
AppendKid(el, n) == [el EXCEPT !.kids = Append(@, n)]

\* n appended to the child nodes of the last child of el
AppendGrandkid(el, n) ==
    [el EXCEPT !.kids[Len(el.kids)] = AppendKid(@, n)]

CanAppendGrandkid(el) ==
    /\ Len(el.kids) > 0
    /\ el.kids[Len(el.kids)].kind = "element"
    /\ el.kids[Len(el.kids)].tag \notin VoidTags

AppendChild(labels, limit) ==
    /\ ~out.done
    /\ NodeCount(dom) < limit
    /\ \E n \in labels : dom' = AppendKid(dom, n)
    /\ UNCHANGED <<maps, out, driverVars, pureVars>>

AppendGrandchild(labels, limit) ==
    /\ ~out.done
    /\ NodeCount(dom) < limit
    /\ CanAppendGrandkid(dom)
    /\ \E n \in labels : dom' = AppendGrandkid(dom, n)
    /\ UNCHANGED <<maps, out, driverVars, pureVars>>

\* convertHTMLToComposableJSON(dom, maps, {})
Convert ==
    /\ ~out.done
    /\ out' = [done |-> TRUE,
               res |-> convertHTMLToComposableJSON(dom, <<>>, maps, ConvState0)]
    /\ UNCHANGED <<dom, maps, driverVars, pureVars>>

TreeAppendChild == AppendChild(TreeLabels, MaxTreeNodes)

TreeAppendGrandchild == AppendGrandchild(TreeLabels, MaxTreeNodes)

TreeConvert == Convert

NextTree == TreeAppendChild \/ TreeAppendGrandchild \/ TreeConvert

SpecTree == InitTree /\ [][NextTree]_vars

MapAppendChild == AppendChild(MapLabels, MaxMapNodes)

MapAppendGrandchild == AppendGrandchild(MapLabels, MaxMapNodes)

MapAddEntry ==
    /\ ~out.done
    /\ Len(maps) < MaxMappings
    /\ \E e \in MappingEntries : maps' = Append(maps, e)
    /\ UNCHANGED <<dom, out, driverVars, pureVars>>

MapConvert == Convert

NextMap == MapAppendChild \/ MapAppendGrandchild \/ MapAddEntry \/ MapConvert

SpecMap == InitTree /\ [][NextMap]_vars

(***************************************************************************)
(* Properties of the driver                                                *)
(***************************************************************************)
ResponseType == "html-to-json-response"

ErrorType == "html-to-json-error"

\* the positions in outbox of the messages of a type posted for request or run id
Posted(id, type) ==
    {i \in DOMAIN outbox : outbox[i].req = id /\ outbox[i].type = type}

Replies(id) == Posted(id, ResponseType) \cup Posted(id, ErrorType)

\* C1: every request-html-to-json the converter's listener takes from an accepted
\* origin is eventually answered with one message to the parent window, a
\* response carrying a tree or an error carrying a string, and never with two.
C1_RequestAnswered ==
    /\ [](\A id \in requests :
            /\ Cardinality(Replies(id)) <= 1
            /\ \A i \in Posted(id, ResponseType) : outbox[i].data # NullResult
            /\ \A i \in Posted(id, ErrorType) : outbox[i].error # "")
    /\ \A id \in 1..(MaxEvents + 1) :
            (id \in requests) ~> (Cardinality(Replies(id)) = 1)

\* a request that started a fresh conversion which failed has its error reply
C1_Witness ==
    \E id \in requests :
        /\ Cardinality(Posted(id, ErrorType)) = 1
        /\ \E i \in DOMAIN returned : returned[i].id = id /\ returned[i].failed

\* a message from an origin outside the converter's list or from a window that
\* is not the parent
Foreign(ev) == ev.origin \notin {O5173, O5174} \/ ev.source # "parent"

\* C2: a message whose origin is not on the allow-list, or whose source is not
\* the parent window, is ignored by both handlers: no conversion starts, nothing
\* is posted, no state changes.
C2_ForeignMessageIgnored ==
    [][\A ev \in MessageEvents :
          (WindowMessage(ev) /\ Foreign(ev)) =>
              UNCHANGED <<run, outbox, lastConversionResult, requests, timers>>]_vars

\* C3: the cache holds the tree of the most recent run that completed
\* successfully, whichever entry point started it.
C3_CacheHoldsLatestSuccess ==
    lastSuccess # NullResult => lastConversionResult = lastSuccess

\* C4: a convertAndSendToStudio run that failed at top level posted exactly one
\* error message, to the requesting party, and no response, no tree, no download
\* and no cache entry came of it.
C4_FailedSendPostsOneError ==
    \A i \in DOMAIN returned :
        (returned[i].entry = "studio" /\ returned[i].failed) =>
            /\ Cardinality(Posted(returned[i].id, ErrorType)) = 1
            /\ \A j \in Posted(returned[i].id, ErrorType) :
                   outbox[j].target = returned[i].targetOrigin
            /\ Posted(returned[i].id, ResponseType) = {}
            /\ \A j \in DOMAIN outbox :
                   outbox[j].req = returned[i].id => outbox[j].data = NullResult
            /\ returned[i].id \notin downloads
            /\ lastConversionResult.run # returned[i].id

C4_Witness ==
    \E i \in DOMAIN returned : returned[i].entry = "studio" /\ returned[i].failed

\* C5: no entry point completes normally with null/undefined in place of a
\* result after the conversion has failed.
C5_FailureIsExplicit ==
    \A i \in DOMAIN returned :
        returned[i].failed =>
            ~(returned[i].settled = "fulfilled" /\ returned[i].value = NullResult)

(***************************************************************************)
(* Properties of the tree converter                                        *)
(***************************************************************************)
\* the child list of a node: the list under its one slot id, if it has one
SlotList(n) ==
    IF DOMAIN n.slots = {} THEN <<>>
    ELSE n.slots[CHOOSE k \in DOMAIN n.slots : TRUE]

\* every node position of a tree, in pre-order
RECURSIVE NodesOf(_)
RECURSIVE NodesOfList(_)
NodesOf(n) == <<n>> \o NodesOfList(SlotList(n))

NodesOfList(ns) ==
    IF ns = <<>> THEN <<>>
    ELSE NodesOf(Head(ns)) \o NodesOfList(Tail(ns))

\* the paths of the nodes of a document below and including n at path
RECURSIVE PathsOf(_, _)
PathsOf(n, path) ==
    {path} \cup UNION { PathsOf(n.kids[i], Append(path, i)) : i \in 1..Len(n.kids) }

\* the node of a document at a path
RECURSIVE ElementAt(_, _)
ElementAt(n, path) ==
    IF path = <<>> THEN n ELSE ElementAt(n.kids[Head(path)], Tail(path))

\* p is a path strictly below q
Below(p, q) == Len(p) > Len(q) /\ SubSeq(p, 1, Len(q)) = q

\* the converted tree, once the conversion returned one
Converted == out.done /\ ~out.res.threw /\ ~out.res.isNull

OutNodes == IF Converted THEN NodesOf(out.res.node) ELSE <<>>

\* the source-less videos of the document
SourcelessVideos ==
    { p \in PathsOf(dom, <<>>) :
        /\ ElementAt(dom, p).tag = "video"
        /\ Len(getElementsByTagName(ElementAt(dom, p), "source")) = 0 }

\* C6: converting a tree that holds a video element without a source does not
\* abort the conversion: the call returns instead of throwing.
C6_SourcelessVideoDoesNotAbort ==
    (out.done /\ SourcelessVideos # {}) => ~out.res.threw

\* the entries of the mapping list that hold a node id equal to fid
MatchingEntries(componentMappings, fid) ==
    { i \in 1..Len(componentMappings) :
        \E j \in 1..Len(componentMappings[i].nodeIds) :
            componentMappings[i].nodeIds[j].nodeId = fid }

Max(S) == CHOOSE x \in S : \A y \in S : y <= x

Min(S) == CHOOSE x \in S : \A y \in S : x <= y

\* the element an emitted node was made from
ElementOf(n) == ElementAt(dom, n.metadata.elementPath)

\* the converter was called on no node below path
NoCallBelow(path) ==
    \A k \in 1..Len(out.res.st.calls) : ~Below(out.res.st.calls[k], path)

C8_FirstMatchingEntryApplied ==
    \A k \in 1..Len(OutNodes) :
        LET n == OutNodes[k]
            el == ElementOf(n)
            m == MatchingEntries(maps, el.fid)
            cm == n.metadata.componentMapping
        IN  (cm.set /\ m # {}) =>
                LET e == maps[Min(m)]
                IN  /\ cm.codeComponentName = e.codeComponentName
                    /\ cm.variantProperties =
                           e.nodeIds[FindNode(e.nodeIds, el.fid)].variantProperties
                    /\ (e.codeComponentName # "" => n.type = e.codeComponentName)

\* C9: no two node positions of a returned tree carry the same uid.
C9_UidsUnique ==
    \A i, j \in 1..Len(OutNodes) : i # j => OutNodes[i].uid # OutNodes[j].uid

\* the node has a children property that is a slot descriptor
HasChildrenProp(n) ==
    "children" \in DOMAIN n.props /\ n.props["children"].type = "slot"

\* C10: a node has a children property of type slot if and only if its slots
\* hold a non-empty child list under exactly the slot id the property names;
\* a node without children has empty slots and no children property.
C10_ChildrenIffSlot ==
    \A k \in 1..Len(OutNodes) :
        LET n == OutNodes[k]
        IN  IF HasChildrenProp(n)
            THEN /\ DOMAIN n.slots = {n.props["children"].slot}
                 /\ n.slots[n.props["children"].slot] # <<>>
            ELSE /\ "children" \notin DOMAIN n.props
                 /\ n.slots = EmptyMap

(***************************************************************************)
(* Helper functions applied on their own: the argument is drawn in the     *)
(* initial state, and a step calls the helper on it                        *)
(***************************************************************************)
\* an element with a computed display and flex-direction
Styled(el, display, flexDirection) ==
    [el EXCEPT !.cs["display"] = display, !.cs["flex-direction"] = flexDirection]

ClassifyTags ==
    { "h1", "h6", "a", "video", "section", "p", "span", "label", "button",
      "img", "svg", "div", "ul" }

ClassifyKids ==
    { <<>>, <<Txt>>, <<TextNode(<<" ">>)>>, <<Elem("span", NoAttr, <<>>)>>,
      <<Txt, Elem("span", NoAttr, <<Txt>>)>> }

ClassifyInputs ==
    { Styled(Elem(t, NoAttr, k), d, f) :
        t \in ClassifyTags, k \in ClassifyKids,
        d \in {"block", "flex", "grid"}, f \in {"row", "column"} }

InitClassify == DriverIdle /\ TreeIdle /\ input \in ClassifyInputs /\ output = <<>>

\* browserUtils.getComponentName(input); nothing changes the element between
\* two calls
Classify ==
    /\ Len(output) < MaxCalls
    /\ output' = Append(output, getComponentName(input))
    /\ UNCHANGED <<input, driverVars, treeVars>>

SpecClassify == InitClassify /\ [][Classify]_vars

\* the priority table of the Classifier
KindTable(tag, hasChildElements, hasText, display, flexDirection) ==
    CASE tag \in {"h1", "h2", "h3", "h4", "h5", "h6"} -> "header"
      [] tag = "a" -> IF hasChildElements THEN "link-container" ELSE "link"
      [] tag = "video" -> "video"
      [] tag = "section" -> "section"
      [] tag \in {"p", "span", "label"} -> "text"
      [] tag = "button" -> "button"
      [] tag \in {"img", "svg"} -> "image"
      [] tag = "div" ->
            IF ~hasChildElements /\ hasText THEN "text"
            ELSE IF display = "flex" /\ flexDirection = "column" THEN "vstack"
            ELSE IF display = "flex" THEN "hstack"
            ELSE "box"
      [] OTHER -> IF ~hasChildElements /\ hasText THEN "text" ELSE "box"

\* C11: every call of getComponentName on an element returns the kind the
\* priority table gives for its tag, child elements, trimmed text and computed
\* display and flex-direction, and so a second call returns the same kind.
C11_ClassifierTable ==
    \A i \in 1..Len(output) :
        output[i] = KindTable(input.tag,
                              \E k \in 1..Len(input.kids) :
                                  input.kids[k].kind = "element",
                              trim(textContent(input)) # <<>>,
                              input.cs["display"], input.cs["flex-direction"])

\* a column flex div holding an element was classified twice
C11_Witness ==
    /\ Len(output) = MaxCalls
    /\ input.tag = "div"
    /\ input.cs["display"] = "flex"
    /\ input.cs["flex-direction"] = "column"
    /\ Len(children(input)) > 0
    /\ output[1] = "vstack"

(***************************************************************************)
(* Style capture: the inclusion test of getAppliedStyles                   *)
(***************************************************************************)
StyleModes == {"all", "inheritedOnly", "uaDiff", "uaDiffPlusInherited", "other"}

\* two supported properties, one of them inheritable, and two that are not
\* supported, one of them inheritable
StyleProps == {"color", "display", "quotes", "float"}

StyleValues == {"red", "blue", "inherit"}

IncludeInputs ==
    [prop : StyleProps, val : StyleValues, uaVal : StyleValues,
     hasParent : BOOLEAN, psVal : StyleValues]

InitInclude == DriverIdle /\ TreeIdle /\ input \in IncludeInputs /\ output = <<>>

\* the switch of getAppliedStyles run on one property under one mode
IncludeTest ==
    /\ \E mode \in StyleModes :
          /\ \A i \in 1..Len(output) : output[i].mode # mode
          /\ output' = Append(output,
                 [mode |-> mode,
                  include |-> includeValue(mode, input.prop, input.val, input.uaVal,
                                           input.hasParent, input.psVal)])
    /\ UNCHANGED <<input, driverVars, treeVars>>

SpecInclude == InitInclude /\ [][IncludeTest]_vars

\* the property passed the inclusion test under mode, among the tests made
PassedUnder(mode) ==
    \E i \in 1..Len(output) : output[i].mode = mode /\ Included(output[i].include)

TestedUnder(mode) == \E i \in 1..Len(output) : output[i].mode = mode

\* C12: a property passes the inclusion test of mode uaDiffPlusInherited exactly
\* when it passes the test of mode uaDiff or the test of mode inheritedOnly.
C12_CombinedModeIsOr ==
    (TestedUnder("uaDiffPlusInherited") /\ TestedUnder("uaDiff")
        /\ TestedUnder("inheritedOnly")) =>
        (PassedUnder("uaDiffPlusInherited") <=>
            (PassedUnder("uaDiff") \/ PassedUnder("inheritedOnly")))

\* an inheritable property equal to the baseline and to the parent's value passed
\* under the combined mode and under inheritedOnly, not under uaDiff
C12_Witness ==
    /\ input.prop = "color"
    /\ input.val = input.uaVal
    /\ PassedUnder("uaDiffPlusInherited")
    /\ PassedUnder("inheritedOnly")
    /\ TestedUnder("uaDiff")
    /\ ~PassedUnder("uaDiff")

(***************************************************************************)
(* getPageRoute.  The URL is given as the fields the URL object parses     *)
(* window.location.href into; strings are sequences of characters.         *)
(***************************************************************************)
AlphaNumeric ==
    { "a", "b", "c", "d", "e", "f", "g", "h", "i", "j", "k", "l", "m", "n",
      "o", "p", "q", "r", "s", "t", "u", "v", "w", "x", "y", "z", "A", "B",
      "C", "D", "E", "F", "G", "H", "I", "J", "K", "L", "M", "N", "O", "P",
      "Q", "R", "S", "T", "U", "V", "W", "X", "Y", "Z", "0", "1", "2", "3",
      "4", "5", "6", "7", "8", "9" }

Digits == {"0", "1", "2", "3", "4", "5", "6", "7", "8", "9"}

\* pathname.replace(/^\/+|\/+$/g, '')
RECURSIVE StripLeadingSlashes(_)
StripLeadingSlashes(s) ==
    IF s # <<>> /\ Head(s) = "/" THEN StripLeadingSlashes(Tail(s)) ELSE s

RECURSIVE StripTrailingSlashes(_)
StripTrailingSlashes(s) ==
    IF s # <<>> /\ s[Len(s)] = "/"
    THEN StripTrailingSlashes(SubSeq(s, 1, Len(s) - 1)) ELSE s

\* [_\s]
IsSeparator(c) == c = "_" \/ IsSpace(c)

RECURSIVE DropSeparators(_)
DropSeparators(s) ==
    IF s # <<>> /\ IsSeparator(Head(s)) THEN DropSeparators(Tail(s)) ELSE s

\* fullRoute.replace(/[_\s]+/g, '_')
RECURSIVE CollapseSeparators(_)
CollapseSeparators(s) ==
    IF s = <<>> THEN <<>>
    ELSE IF IsSeparator(Head(s)) THEN <<"_">> \o CollapseSeparators(DropSeparators(s))
    ELSE <<Head(s)>> \o CollapseSeparators(Tail(s))

\* cleanRoute.replace(/[^a-zA-Z0-9_\-]/g, '')
RECURSIVE RemoveSpecial(_)
RemoveSpecial(s) ==
    IF s = <<>> THEN <<>>
    ELSE IF Head(s) \in AlphaNumeric \cup {"_", "-"}
         THEN <<Head(s)>> \o RemoveSpecial(Tail(s))
    ELSE RemoveSpecial(Tail(s))

PagePrefix == <<"p", "a", "g", "e", "_">>

RootName == <<"r", "o", "o", "t">>

\* function getPageRoute(); new URL(window.location.href) does not throw
getPageRoute(url) ==
    LET hostPrefix == IF url.port # <<>> THEN url.hostname \o <<"_">> \o url.port
                      ELSE url.hostname
        stripped == StripTrailingSlashes(StripLeadingSlashes(url.pathname))
        pathname == IF stripped = <<>> THEN RootName ELSE stripped
        fullRoute == hostPrefix \o <<"_">> \o pathname
        cleanRoute == RemoveSpecial(CollapseSeparators(fullRoute))
    IN  IF cleanRoute # <<>> /\ Head(cleanRoute) \in Digits
        THEN PagePrefix \o cleanRoute
        ELSE cleanRoute

RouteHosts ==
    { <<"e", "x", "a", "m", "p", "l", "e", ".", "c", "o", "m">>,
      <<"l", "o", "c", "a", "l", "h", "o", "s", "t">>,
      <<"9", "g", "a", "g", ".", "c", "o", "m">>,
      <<"a", "_", "b", ".", "i", "o">> }

RoutePorts ==
    { <<>>,
      <<"8", "0", "8", "0">>,
      <<"8", "0">> }

RoutePaths ==
    { <<"/">>,
      <<"/", "b", "l", "o", "g", "/", "p", "o", "s", "t", "-", "1", "/">>,
      <<"/", "a", "_", "b">>,
      <<"/", "a", " ", "b", "/">>,
      <<"/", "/">>,
      <<"/", "x", "_", "_", "y", "/">>,
      <<"/", "a", "/", "b">>,
      <<"/", "~", "u", "/">>,
      <<"/", "b", "l", "o", "g">> }

RouteInputs == [hostname : RouteHosts, port : RoutePorts, pathname : RoutePaths]

InitRoute == DriverIdle /\ TreeIdle /\ input \in RouteInputs /\ output = <<>>

\* getPageRoute() on the page at input
Route ==
    /\ Len(output) < MaxCalls
    /\ output' = Append(output, getPageRoute(input))
    /\ UNCHANGED <<input, driverVars, treeVars>>

SpecRoute == InitRoute /\ [][Route]_vars

\* https://example.com:8080/blog/post-1/
UrlBlogPost ==
    [hostname |-> <<"e", "x", "a", "m", "p", "l", "e", ".", "c", "o", "m">>,
     port |-> <<"8", "0", "8", "0">>,
     pathname |-> <<"/", "b", "l", "o", "g", "/", "p", "o", "s", "t", "-", "1", "/">>]

\* https://example.com/
UrlRoot ==
    [hostname |-> <<"e", "x", "a", "m", "p", "l", "e", ".", "c", "o", "m">>,
     port |-> <<>>,
     pathname |-> <<"/">>]

\* C13: getPageRoute gives example.com_8080_blog_post-1 for
\* https://example.com:8080/blog/post-1/ and example.com_root for
\* https://example.com/: host and port joined by an underscore, an underscore,
\* and the slash-stripped pathname.
C13_RouteOfExamples ==
    \A i \in 1..Len(output) :
        /\ input = UrlBlogPost =>
               output[i] = <<"e", "x", "a", "m", "p", "l", "e", ".", "c", "o", "m", "_", "8", "0", "8", "0", "_", "b", "l", "o", "g", "_", "p", "o", "s", "t", "-", "1">>
        /\ input = UrlRoot =>
               output[i] = <<"e", "x", "a", "m", "p", "l", "e", ".", "c", "o", "m", "_", "r", "o", "o", "t">>

(***************************************************************************)
(* handleLinkElement applied to anchors                                    *)
(***************************************************************************)
HrefMailto == <<"m", "a", "i", "l", "t", "o", ":", "a", "@", "b", ".", "c", "o", "m">>

HrefFragment == <<"#", "s", "e", "c", "t", "i", "o", "n">>

\* the values of the href attribute
LinkHrefs ==
    { <<>>, HrefMailto, HrefFragment,
      <<"h", "t", "t", "p", ":", "/", "/", "x", ".", "i", "o">>,
      <<"/", "/", "c", "d", "n">>, <<"t", "e", "l", ":", "1">>,
      <<"/", "a", "b", "o", "u", "t">> }

\* the attribute lists of the anchors: href, target and rel present or not
LinkAttrs ==
    { f \in UNION { [A -> LinkHrefs \cup {<<"_", "b", "l", "a", "n", "k">>}] :
                        A \in SUBSET {"href", "target", "rel"} } :
        /\ "target" \in DOMAIN f => f["target"] \in {<<>>, <<"_", "b", "l", "a", "n", "k">>}
        /\ "rel" \in DOMAIN f => f["rel"] = HrefFragment
        /\ "href" \in DOMAIN f => f["href"] \in LinkHrefs }

LinkInputs ==
    { [Elem(t, NoAttr, k) EXCEPT !.attrs = f] :
        t \in {"a", "div"}, k \in {<<>>, <<Txt>>}, f \in LinkAttrs }

InitLink == DriverIdle /\ TreeIdle /\ input \in LinkInputs /\ output = <<>>

\* browserUtils.handleLinkElement(input, elementJSON) on a fresh elementJSON
Link ==
    /\ Len(output) < MaxCalls
    /\ output' = Append(output,
           handleLinkElement(input,
               NewNode(getComponentName(input), Len(output) + 1, input, <<>>,
                       getElementAttributes(input))))
    /\ UNCHANGED <<input, driverVars, treeVars>>

SpecLink == InitLink /\ [][Link]_vars

\* C14: the four flags of an anchor's linkInfo are each true or false; an href
\* starting with mailto: gives isEmail true and the other three false, an href
\* starting with # gives isInternal true, and an absent or empty href gives
\* four times false.
C14_LinkFlagsAreBooleans ==
    \A i \in 1..Len(output) :
        input.tag = "a" =>
            LET info == output[i].metadata.linkInfo
                href == getAttribute(input, "href")
            IN  /\ info.set
                /\ \A v \in {info.isExternal, info.isInternal, info.isEmail,
                             info.isPhone} : v \in {JsBool(TRUE), JsBool(FALSE)}
                /\ startsWith(href.s, MailtoPrefix) =>
                       /\ info.isEmail = JsBool(TRUE)
                       /\ info.isExternal = JsBool(FALSE)
                       /\ info.isInternal = JsBool(FALSE)
                       /\ info.isPhone = JsBool(FALSE)
                /\ startsWith(href.s, <<"#">>) => info.isInternal = JsBool(TRUE)
                /\ href.s = <<>> =>
                       \A v \in {info.isExternal, info.isInternal, info.isEmail,
                                 info.isPhone} : v = JsBool(FALSE)

(***************************************************************************)
(* The converter applied to single text containers                         *)
(***************************************************************************)
TextContents ==
    { <<"a">>,
      <<"a", ".", ".", ".">>,
      <<"a", ".", ".", ".", ".">>,
      <<".", ".", ".">>,
      <<"a", ".", ".">>,
      <<"a", ".", " ", ".", ".", ".">>,
      <<".", ".", ".", ".", "a">>,
      <<" ", "a", ".", ".", ".">> }

\* class and style attributes with and without a truncation indicator
TextAttrs ==
    { EmptyMap,
      [x \in {"class"} |-> <<"line-clamp-3">>],
      [x \in {"class"} |-> <<"card", "line-clamp-1">>],
      [x \in {"class"} |-> <<"card">>],
      [x \in {"style"} |-> [y \in {"text-overflow"} |-> <<"ellipsis">>]],
      [x \in {"style"} |-> [y \in {"overflow"} |-> <<"hidden">>]] }

TextInputs ==
    { [Elem(t, NoAttr, <<TextNode(c)>>) EXCEPT !.attrs = f] :
        t \in {"p", "div", "button", "li"}, c \in TextContents, f \in TextAttrs }

InitText == DriverIdle /\ TreeIdle /\ input \in TextInputs /\ output = <<>>

\* convertHTMLToComposableJSON(input)
ConvertText ==
    /\ output = <<>>
    /\ output' = <<convertHTMLToComposableJSON(input, <<>>, <<>>, ConvState0)>>
    /\ UNCHANGED <<input, driverVars, treeVars>>

SpecText == InitText /\ [][ConvertText]_vars

\* the texts a node carries: its text property and, on a button, its label
EmittedTexts(tag, n) ==
    { n.props[x].staticString :
        x \in DOMAIN n.props \cap ({"text"} \cup (IF tag = "button" THEN {"label"} ELSE {})) }

\* C15: for an element with a clamping or overflow-ellipsis indicator, every text
\* the converter emits for it (text property, or label of a button) is the
\* element's trimmed text content without its trailing run of three or more
\* dots, and does not end in such a run.
C15_EmittedTextIsDetruncated ==
    \A i \in 1..Len(output) :
        (hasTruncation(input) /\ ~output[i].threw /\ ~output[i].isNull) =>
            \A k \in 1..Len(NodesOf(output[i].node)) :
                \A t \in EmittedTexts(input.tag, NodesOf(output[i].node)[k]) :
                    /\ TrailingDots(t) < 3
                    /\ t = StripTrailingDots(trim(textContent(input)))

(***************************************************************************)
(* getElementResponsiveStyles applied to single elements                   *)
(***************************************************************************)
StyleTags == {"div", "p", "a", "button", "ul", "li", "img", "h1"}

StyleClassLists ==
    { <<>>, <<"bg-opacity-50">>, <<"border">>, <<"btn">>,
      <<"bg-opacity", "border-2">> }

\* the style attribute: absent, or one declaration, the last one with a colon
\* in its value: background-image: url(https://cdn/a.png)
StyleAttrs ==
    { EmptyMap,
      [y \in {"color"} |-> <<"red">>],
      [y \in {"opacity"} |-> <<"0.3">>],
      [y \in {"display"} |-> <<"none">>],
      [y \in {"background-image"} |-> <<"url(https", "//cdn/a.png)">>] }

\* an element with classes, a style attribute, and computed values of display,
\* color and opacity that are the baseline's or not
StyleInputs ==
    { [Elem(t, NoAttr, <<>>) EXCEPT
          !.attrs = [x \in (IF c # <<>> THEN {"class"} ELSE {})
                           \cup (IF a # EmptyMap THEN {"style"} ELSE {}) |->
                        IF x = "class" THEN c ELSE a],
          !.cs["display"] = IF d = "ua" THEN @ ELSE d,
          !.cs["color"] = IF col = "ua" THEN @ ELSE col,
          !.cs["opacity"] = o,
          !.ps["color"] = IF pcol = "ua" THEN @ ELSE pcol,
          !.hasParent = hp,
          !.frame = fr] :
        fr \in BOOLEAN, t \in StyleTags, c \in StyleClassLists, a \in StyleAttrs,
        d \in {"ua", "flex"}, col \in {"ua", "rgb(255, 0, 0)"},
        o \in {"1", "0.5"}, pcol \in {"ua", "rgb(255, 0, 0)"}, hp \in BOOLEAN }

InitStyles == DriverIdle /\ TreeIdle /\ input \in StyleInputs /\ output = <<>>

\* browserUtils.getElementResponsiveStyles(input)
Style ==
    /\ output = <<>>
    /\ output' = <<getElementResponsiveStyles(input)>>
    /\ UNCHANGED <<input, driverVars, treeVars>>

SpecStyles == InitStyles /\ [][Style]_vars

\* C16: every value of the default, tablet and mobile StyleMap of an element is
\* a string.
C16_StyleValuesAreStrings ==
    \A i \in 1..Len(output) :
        \A layer \in {"default", "tablet", "mobile"} :
            \A k \in DOMAIN output[i][layer] : output[i][layer][k].t = "string"

(***************************************************************************)
(* Text children and line breaks                                           *)
(***************************************************************************)
\* C17: a div with zero child elements and non-empty text is emitted with
\* exactly one child in its slot, a node of type text whose text property is
\* the de-truncated text, and with no text property of its own.
C17_DivTextGetsSyntheticChild ==
    \A i \in 1..Len(output) :
        (/\ input.tag = "div"
         /\ children(input) = <<>>
         /\ trim(textContent(input)) # <<>>
         /\ ~output[i].threw /\ ~output[i].isNull) =>
            LET n == output[i].node
            IN  /\ "text" \notin DOMAIN n.props
                /\ Len(SlotList(n)) = 1
                /\ SlotList(n)[1].type = "text"
                /\ "text" \in DOMAIN SlotList(n)[1].props
                /\ SlotList(n)[1].props["text"].staticString =
                       StripTrailingDots(trim(textContent(input)))

MaxBreakKids == 4

\* the child nodes of the elements of SpecBreak: two text nodes, a line break
\* and an element with text of its own
BreakKids ==
    { TextNode(<<"a">>), TextNode(<<"b">>), Elem("br", NoAttr, <<>>),
      Elem("span", NoAttr, <<TextNode(<<"c">>)>>) }

BreakInputs ==
    { Elem(t, NoAttr, ks) :
        t \in {"div", "p", "li"},
        ks \in UNION { [1..n -> BreakKids] : n \in 1..MaxBreakKids } }

InitBreak == DriverIdle /\ TreeIdle /\ input \in BreakInputs /\ output = <<>>

\* convertHTMLToComposableJSON(input)
ConvertBreak ==
    /\ output = <<>>
    /\ output' = <<convertHTMLToComposableJSON(input, <<>>, <<>>, ConvState0)>>
    /\ UNCHANGED <<input, driverVars, treeVars>>

SpecBreak == InitBreak /\ [][ConvertBreak]_vars

\* the element takes the line-break branch
InBreakBranch(el) ==
    hasBrElement(el) /\ getComponentName(el) \notin HTML_RTE_COMPONENTS

\* the texts of a run joined by single spaces
RECURSIVE JoinRun(_)
JoinRun(texts) ==
    IF Len(texts) = 0 THEN <<>>
    ELSE IF Len(texts) = 1 THEN texts[1]
    ELSE texts[1] \o <<" ">> \o JoinRun(Tail(texts))

MergedText(value) == [text |-> TRUE, value |-> value, at |-> 0]

ChildElement(i) == [text |-> FALSE, value |-> <<>>, at |-> i]

\* the children the claim describes for child nodes kids from position i on,
\* texts being those of the text run that is open at i
RECURSIVE MergedRuns(_, _, _)
MergedRuns(kids, i, texts) ==
    LET flush == IF texts = <<>> THEN <<>> ELSE <<MergedText(JoinRun(texts))>>
    IN  IF i > Len(kids) THEN flush
        ELSE IF kids[i].tag = "br" THEN MergedRuns(kids, i + 1, texts)
        ELSE IF kids[i].kind = "text"
        THEN MergedRuns(kids, i + 1, Append(texts, kids[i].text))
        ELSE flush \o <<ChildElement(i)>> \o MergedRuns(kids, i + 1, <<>>)

\* the children of an emitted node in the same form: a child made for the
\* element itself is a merged text node, a child made for its i-th child node
\* is that element's node
EmittedChildren(n) ==
    [k \in 1..Len(SlotList(n)) |->
        LET c == SlotList(n)[k]
        IN  IF c.metadata.elementPath = n.metadata.elementPath
            THEN MergedText(previousText(c.props))
            ELSE ChildElement(c.metadata.elementPath[Len(c.metadata.elementPath)])]

\* C18: in the line-break branch every maximal run of text nodes separated only
\* by line breaks gives one merged text node, holding those texts in order
\* joined by single spaces and emitted once where the run ends, and every
\* element child gives its own node at its document position.
C18_TextRunsMergedOnce ==
    \A i \in 1..Len(output) :
        (InBreakBranch(input) /\ ~output[i].threw /\ ~output[i].isNull) =>
            EmittedChildren(output[i].node) = MergedRuns(input.kids, 1, <<>>)

\* C19: an element with a line break among its child nodes that is not a
\* rich-text container is emitted with type box.
C19_LineBreakForcesBox ==
    \A i \in 1..Len(output) :
        (InBreakBranch(input) /\ ~output[i].threw /\ ~output[i].isNull) =>
            output[i].node.type = "box"

\* C20: a node is not changed after it was appended to a slot list (the value
\* appended is the value in the returned tree), and no node is appended twice.
C20_AppendedNodesAreFinal ==
    \A i \in 1..Len(output) :
        (~output[i].threw /\ ~output[i].isNull) =>
            LET appended == output[i].st.appended
                final == NodesOf(output[i].node)
            IN  /\ \A j \in 1..Len(appended) :
                       \E k \in 1..Len(final) : final[k] = appended[j]
                /\ \A j, k \in 1..Len(appended) :
                       appended[j].uid = appended[k].uid => j = k

(***************************************************************************)
(* Order of sibling output                                                 *)
(***************************************************************************)
\* the positions in the slot list of n of the nodes made from child elements
\* of n's element (the others are made from the element itself)
ChildMade(n) ==
    { k \in 1..Len(SlotList(n)) :
        Len(SlotList(n)[k].metadata.elementPath) = Len(n.metadata.elementPath) + 1 }

\* the child index of the element the k-th node of the slot list was made from
ChildIndex(n, k) ==
    LET p == SlotList(n)[k].metadata.elementPath IN p[Len(p)]

\* the nodes of the tree under n that are the conversion of an element: n and,
\* below it, the nodes made from child elements (the merged text node of the
\* line-break branch is made from the element itself)
RECURSIVE ElementNodes(_)
ElementNodes(n) ==
    {n} \cup UNION { ElementNodes(SlotList(n)[k]) : k \in ChildMade(n) }

\* the element of n is converted by a branch that recurses into its children
Recurses(n) ==
    /\ tagName(ElementOf(n)) \notin MEDIA_TAGS
    /\ ElementOf(n).tag # "svg"

\* C21: in the slot list of every node converted through a recursing branch,
\* the nodes made from child elements stand in the document order of those
\* elements, one for every child element whose conversion did not return null.
C21_SiblingOrderKept ==
    Converted =>
        \A n \in ElementNodes(out.res.node) :
            Recurses(n) =>
                /\ \A k, l \in ChildMade(n) :
                       k < l => ChildIndex(n, k) < ChildIndex(n, l)
                /\ { ChildIndex(n, k) : k \in ChildMade(n) } =
                       { j \in 1..Len(ElementOf(n).kids) :
                           /\ ElementOf(n).kids[j].kind = "element"
                           /\ ElementOf(n).kids[j].tag # "br" }

\* a converted document whose root has an svg child, a line break that is
\* skipped, and a later child element, all emitted in that order
C21_Witness ==
    /\ Converted
    /\ Len(dom.kids) = 3
    /\ dom.kids[1].tag = "svg"
    /\ dom.kids[2].tag = "br"
    /\ dom.kids[3].tag = "div"
    /\ Len(SlotList(out.res.node)) = 2
    /\ SlotList(out.res.node)[1].metadata.elementPath = <<1>>
    /\ SlotList(out.res.node)[2].metadata.elementPath = <<3>>

(***************************************************************************)
(* getAppliedStyles under every mode and several whitelists                *)
(***************************************************************************)
\* the default whitelist, two short ones, and the empty one
Whitelists == { SUPPORTED_PROPS, {"color"}, {"color", "display", "quotes"}, {} }

\* elements whose computed display and color are the baseline's, another value,
\* empty, initial or unset; anchors with and without a button-like class
ResolveElements ==
    { [Elem(t, NoAttr, <<>>) EXCEPT
          !.attrs = [x \in (IF c # <<>> THEN {"class"} ELSE {}) |-> c],
          !.cs["display"] = IF d = "ua" THEN @ ELSE d,
          !.cs["color"] = IF col = "ua" THEN @ ELSE col,
          !.ps["color"] = IF pcol = "ua" THEN @ ELSE pcol,
          !.hasParent = hp] :
        t \in {"a", "div"}, c \in {<<>>, <<"btn">>},
        d \in {"ua", "flex", "initial", ""},
        col \in {"ua", "rgb(255, 0, 0)", "unset"},
        pcol \in {"ua", "rgb(255, 0, 0)"}, hp \in BOOLEAN }

ResolveInputs == [el : ResolveElements, mode : StyleModes, whitelist : Whitelists]

InitResolve == DriverIdle /\ TreeIdle /\ input \in ResolveInputs /\ output = <<>>

\* browserUtils.getAppliedStyles(el, { mode, whitelist })
Resolve ==
    /\ output = <<>>
    /\ output' = <<getAppliedStyles(input.el, input.mode, input.whitelist)>>
    /\ UNCHANGED <<input, driverVars, treeVars>>

SpecResolve == InitResolve /\ [][Resolve]_vars

\* C22: in every mode the map getAppliedStyles returns holds only properties of
\* the whitelist and no property whose computed value is initial or unset, and
\* in mode all it holds every whitelisted property that has a computed value.
C22_ResolvedWithinWhitelist ==
    \A i \in 1..Len(output) :
        LET m == output[i].styles
            cs == input.el.cs
        IN  ~output[i].threw =>
            /\ \A k \in DOMAIN m : \E p \in input.whitelist : camel(p) = k
            /\ \A k \in DOMAIN m : \A p \in DOMAIN cs :
                   camel(p) = k => cs[p] \notin {"initial", "unset"}
            /\ input.mode = "all" =>
                   \A p \in input.whitelist \cap DOMAIN cs :
                       cs[p] \notin {"", "initial", "unset"} => camel(p) \in DOMAIN m

(***************************************************************************)
(* Layers of getElementResponsiveStyles                                    *)
(***************************************************************************)
\* the declarations of the element's style attribute
DeclaredInline(el) ==
    IF "style" \in DOMAIN el.attrs THEN el.attrs["style"] ELSE EmptyMap

\* C23: in the merged default map a property the style attribute declares has
\* the declared value, any other property a tag or class exception sets has the
\* exception's value, and any other property has the value getAppliedStyles
\* resolved; the tablet and mobile maps are empty, also when getAppliedStyles
\* throws.
C23_InlineThenExceptionThenEngine ==
    \A i \in 1..Len(output) :
        LET merged == output[i].default
            inline == DeclaredInline(input)
            inlineKeys == {camel(p) : p \in DOMAIN inline}
            exception == handleAdditionalStyles(input, classListOf(input))
            engine == getAppliedStyles(input, STYLE_MODE, SUPPORTED_PROPS)
        IN  /\ output[i].tablet = EmptyMap
            /\ output[i].mobile = EmptyMap
            /\ ~engine.threw =>
                  /\ DOMAIN merged =
                        inlineKeys \cup DOMAIN exception \cup DOMAIN engine.styles
                  /\ \A p \in DOMAIN inline :
                        \* the declared value is the one piece of a value
                        \* without colon
                        /\ Len(inline[p]) = 1
                        /\ merged[camel(p)] = StrVal(inline[p][1])
                  /\ \A k \in DOMAIN exception \ inlineKeys :
                        merged[k] = exception[k]
                  /\ \A k \in DOMAIN engine.styles \ (inlineKeys \cup DOMAIN exception) :
                        merged[k] = engine.styles[k]

\* C24: when the baseline iframe cannot be created, style derivation still
\* completes with every supported property that has a computed value in the
\* default map, as for a baseline that holds no value.
C24_NoBaselineKeepsStyles ==
    \A i \in 1..Len(output) :
        ~input.frame =>
            \A p \in SUPPORTED_PROPS \cap DOMAIN input.cs :
                input.cs[p] \notin {"", "initial", "unset"} =>
                    camel(p) \in DOMAIN output[i].default

(***************************************************************************)
(* The title and content preview of getElementMetadata                     *)
(***************************************************************************)
PreviewLength == 50

\* str.substring(0, n)
substring0(str, n) == SubSeq(str, 1, IF Len(str) < n THEN Len(str) ELSE n)

\* the title and contentPreview getElementMetadata builds.  The title is
\* tagName, then "#id" or ".firstClass" (qualifier), then, when the preview is
\* not empty, ' - "' preview, "..." (ellipsis) and '"'
metadataTitle(el) ==
    LET id == IF "id" \in DOMAIN el.attrs THEN el.attrs["id"] ELSE ""
        classList == classListOf(el)
        preview == substring0(trim(textContent(el)), PreviewLength)
    IN  [tagName |-> el.tag,
         qualifier |-> IF id # "" THEN <<"#", id>>
                       ELSE IF classList # <<>> THEN <<".", classList[1]>>
                       ELSE <<>>,
         quoted |-> preview # <<>>,
         preview |-> preview,
         ellipsis |-> preview # <<>> /\ Len(preview) >= PreviewLength,
         contentPreview |-> preview]

MaxTextLen == 52

\* elements whose text is n characters, bare or with a space before or after
\* it, with an id, a class, or neither
PreviewInputs ==
    { [Elem("p", NoAttr, <<TextNode(lead \o [k \in 1..n |-> "x"] \o trail)>>)
          EXCEPT !.attrs = a] :
        n \in 0..MaxTextLen, lead \in {<<>>, <<" ">>}, trail \in {<<>>, <<" ">>},
        a \in { EmptyMap, [x \in {"id"} |-> "hero"],
                [x \in {"class"} |-> <<"card", "wide">>] } }

InitPreview == DriverIdle /\ TreeIdle /\ input \in PreviewInputs /\ output = <<>>

\* browserUtils.getElementMetadata(input), its title and contentPreview
Preview ==
    /\ output = <<>>
    /\ output' = <<metadataTitle(input)>>
    /\ UNCHANGED <<input, driverVars, treeVars>>

SpecPreview == InitPreview /\ [][Preview]_vars

\* C25: the preview in the title is the first 50 characters at most of the
\* element's trimmed text, and the ellipsis follows it exactly when the trimmed
\* text is longer than 50 characters.
C25_EllipsisIffClipped ==
    \A i \in 1..Len(output) :
        LET text == trim(textContent(input))
        IN  /\ Len(output[i].preview) <= PreviewLength
            /\ output[i].preview = SubSeq(text, 1, Len(output[i].preview))
            /\ output[i].ellipsis <=> Len(text) > PreviewLength

(***************************************************************************)
(* The cached result                                                       *)
(***************************************************************************)
\* the step is the end of a convertAndSendToStudio run whose conversion succeeded
StudioRunSucceeds ==
    /\ run.entry = "studio"
    /\ ~pending.threw
    /\ run' = IdleRun

\* the step is the converter's listener taking a request
ListenerTakes == requests' # requests

C27_RepliesGoToRequestOrigin ==
    /\ [](\A id \in requests : \A i \in Replies(id) : outbox[i].target # "*")
    /\ [][\A ev \in MessageEvents :
             (ListenerTakesRequest(ev) /\ WindowMessage(ev)) =>
                 IF lastConversionResult # NullResult
                 THEN outbox' = Append(outbox,
                          Msg(ResponseType, lastConversionResult, "", ev.origin,
                              nRuns + 1, ""))
                 ELSE /\ outbox' = outbox
                      /\ run'.id = nRuns + 1
                      /\ run'.targetOrigin = ev.origin]_vars
    /\ [][(run.id \in requests /\ run' = IdleRun) =>
             /\ Len(outbox') = Len(outbox) + 1
             /\ outbox'[Len(outbox')].req = run.id
             /\ outbox'[Len(outbox')].type \in {ResponseType, ErrorType}
             /\ outbox'[Len(outbox')].target = run.targetOrigin]_vars

\* one request answered by the run it started and a later one answered from
\* the cache, both replies posted to an origin of the listener's list
C27_Witness ==
    \E id1, id2 \in requests :
        /\ \E k \in 1..Len(returned) : returned[k].id = id1
        /\ \A k \in 1..Len(returned) : returned[k].id # id2
        /\ \E i \in Replies(id1) : outbox[i].target \in {O5173, O5174}
        /\ \E i \in Replies(id2) : outbox[i].target \in {O5173, O5174}

====
